---- MODULE Spec2Model ----
(***************************************************************************)
(* A model of the Hyper language front end and evaluator:                  *)
(*   - the tree-walking runtime (src/unnamed/part_000),                    *)
(*   - the recursive-descent parser (src/unnamed/part_006).                *)
(*   - the environments of src/src/runtime/hyp_runtime.c,                  *)
(*   - the lexer (src/src/lexer/lexer.c).                                  *)
(* Each subsystem has its own specification (SpecRuntime, SpecCalls,       *)
(* SpecParser, SpecLookup, SpecLexer); the variables of the other          *)
(* subsystems stay at their idle value.                                    *)
(***************************************************************************)
EXTENDS Integers, Sequences, FiniteSets, TLC

VARIABLES
    runtime,    \* the hyp_runtime_t, with the heap of environments and functions
    runs,       \* number of hyp_runtime_execute_ast calls made on this runtime
    status,     \* what the last hyp_runtime_execute_ast call returned
    parser,     \* the hyp_parser with its token stream
    ppc,        \* where the parser's caller is: "idle", "ready", "loop", "done", "hung"
    lookup,     \* environments of src/src/runtime/hyp_runtime.c and the last lookup made
    lexer,      \* the hyp_lexer_t with its source text and the last token scanned
    values      \* Values made through the value API and the last operation on them

vars == <<runtime, runs, status, parser, ppc, lookup, lexer, values>>

\* The value of lookup, lexer and values in a specification that does not use them.
LookupIdle == [envs |-> <<>>]
LexerIdle == [source |-> <<>>]
ValuesIdle == [made |-> <<>>]

(***************************************************************************)
(* Bounds of the model.                                                    *)
(***************************************************************************)
MaxStmts == 2       \* top-level statements of one program
MaxRuns == 2        \* hyp_runtime_execute_ast calls on one runtime
MaxLoop == 3        \* iterations of one while loop before the run counts as diverged
MaxDepth == 3       \* nested hyp_runtime_call_function calls before it counts as diverged

(***************************************************************************)
(* AST nodes (struct hyp_ast_node).  NoNode is the NULL pointer.           *)
(***************************************************************************)
NoNode == [type |-> "NULL"]
Num(n) == [type |-> "AST_NUMBER", value |-> n]
Str(s) == [type |-> "AST_STRING", value |-> s]
Bool(b) == [type |-> "AST_BOOLEAN", value |-> b]
Null == [type |-> "AST_NULL"]
Id(name) == [type |-> "AST_IDENTIFIER", name |-> name]
Bin(op, l, r) == [type |-> "AST_BINARY_OP", op |-> op, left |-> l, right |-> r]
Assign(t, v) == [type |-> "AST_ASSIGNMENT", target |-> t, value |-> v]
Call(callee, args) == [type |-> "AST_CALL", callee |-> callee, arguments |-> args]
ExprStmt(e) == [type |-> "AST_EXPRESSION_STMT", expression |-> e]
VarDecl(name, init) == [type |-> "AST_VARIABLE_DECL", name |-> name, initializer |-> init]
FnDecl(name, params, body) ==
    [type |-> "AST_FUNCTION_DECL", name |-> name, parameters |-> params, body |-> body]
If(c, t, e) == [type |-> "AST_IF_STMT", condition |-> c, then_stmt |-> t, else_stmt |-> e]
While(c, b) == [type |-> "AST_WHILE_STMT", condition |-> c, body |-> b]
Return(v) == [type |-> "AST_RETURN_STMT", value |-> v]
Block(stmts) == [type |-> "AST_BLOCK_STMT", statements |-> stmts]
Program(stmts) == [type |-> "AST_PROGRAM", statements |-> stmts]

\* The position of an operator in enum hyp_binary_op_t (printed by "%d").
BinopCode(op) ==
    CASE op = "BINOP_ADD" -> 0 [] op = "BINOP_SUB" -> 1 [] op = "BINOP_MUL" -> 2
      [] op = "BINOP_DIV" -> 3 [] op = "BINOP_MOD" -> 4 [] op = "BINOP_POW" -> 5
      [] op = "BINOP_EQ" -> 6 [] op = "BINOP_NE" -> 7 [] op = "BINOP_LT" -> 8
      [] op = "BINOP_LE" -> 9 [] op = "BINOP_GT" -> 10 [] op = "BINOP_GE" -> 11
      [] op = "BINOP_AND" -> 12 [] op = "BINOP_OR" -> 13

(***************************************************************************)
(* Numbers.  A Number is a C double; the model keeps the integers of        *)
(* -DblMax..DblMax as its finite doubles, DblMax standing for DBL_MAX, and  *)
(* the three values a double has besides: an arithmetic result beyond      *)
(* DblMax is an infinity, as in IEEE 754, and NaN compares false with      *)
(* everything.  A quotient is cut to an integer: the model has no          *)
(* fractions.                                                              *)
(***************************************************************************)
DblMax == 100
PosInf == DblMax + 1
NegInf == 0 - (DblMax + 1)
NaN == DblMax + 2
Doubles == (NegInf..PosInf) \cup {NaN}

IsInf(a) == a \in {PosInf, NegInf}
Sign(a) == IF a > 0 THEN 1 ELSE IF a < 0 THEN 0 - 1 ELSE 0
\* The double nearest to the exact result x.
Rounded(x) == IF x > DblMax THEN PosInf ELSE IF x < 0 - DblMax THEN NegInf ELSE x
SignedInf(sign) == IF sign > 0 THEN PosInf ELSE NegInf

double_add(a, b) ==
    IF a = NaN \/ b = NaN THEN NaN
    ELSE IF IsInf(a) /\ IsInf(b) THEN (IF a = b THEN a ELSE NaN)
    ELSE IF IsInf(a) THEN a
    ELSE IF IsInf(b) THEN b
    ELSE Rounded(a + b)

double_neg(a) == IF a = NaN THEN NaN ELSE 0 - a

double_sub(a, b) == double_add(a, double_neg(b))

double_mul(a, b) ==
    IF a = NaN \/ b = NaN THEN NaN
    ELSE IF IsInf(a) \/ IsInf(b)
         THEN (IF a = 0 \/ b = 0 THEN NaN ELSE SignedInf(Sign(a) * Sign(b)))
    ELSE Rounded(a * b)

\* The quotient of finite operands is cut towards zero.
double_div(a, b) ==
    IF a = NaN \/ b = NaN THEN NaN
    ELSE IF IsInf(a) /\ IsInf(b) THEN NaN
    ELSE IF b = 0 THEN (IF a = 0 THEN NaN ELSE SignedInf(Sign(a)))
    ELSE IF IsInf(a) THEN SignedInf(Sign(a) * Sign(b))
    ELSE IF IsInf(b) THEN 0
    ELSE Sign(a) * Sign(b) * ((Sign(a) * a) \div (Sign(b) * b))

double_eq(a, b) == a # NaN /\ b # NaN /\ a = b
double_lt(a, b) == a # NaN /\ b # NaN /\ a < b
double_le(a, b) == a # NaN /\ b # NaN /\ a <= b

(***************************************************************************)
(* Values (struct hyp_value): the tag and the member of the union that the *)
(* tag selects.  An address of the heap is a positive number, NULL is 0.   *)
(***************************************************************************)
hyp_value_null == [type |-> "HYP_VAL_NULL"]
hyp_value_boolean(b) == [type |-> "HYP_VAL_BOOLEAN", boolean |-> b]
hyp_value_number(n) == [type |-> "HYP_VAL_NUMBER", number |-> n]
hyp_value_string(s) == [type |-> "HYP_VAL_STRING", string |-> s]
hyp_value_function(f) == [type |-> "HYP_VAL_FUNCTION", function |-> f]
hyp_value_native_function(name) == [type |-> "HYP_VAL_NATIVE_FUNCTION", name |-> name]

\* hyp_value_array: malloc gives the elements a fresh address when the
\* capacity is not 0, and the elements are NULL when it is.
hyp_value_array(capacity, address) ==
    [type |-> "HYP_VAL_ARRAY",
     array |-> [elements |-> IF capacity > 0 THEN address ELSE 0,
                count |-> 0, capacity |-> capacity]]
hyp_value_object(address) == [type |-> "HYP_VAL_OBJECT", object |-> address]

\* What a.object reads of a Value that is not Null, Boolean, Number or String:
\* the pointer that starts the union, which is array.elements for an Array
\* and native_function.name for a built-in.
ObjectMember(v) ==
    CASE v.type = "HYP_VAL_ARRAY" -> v.array.elements
      [] v.type = "HYP_VAL_OBJECT" -> v.object
      [] v.type = "HYP_VAL_FUNCTION" -> v.function
      [] v.type = "HYP_VAL_NATIVE_FUNCTION" -> v.name

hyp_value_equals(a, b) ==
    IF a.type # b.type THEN FALSE
    ELSE CASE a.type = "HYP_VAL_NULL" -> TRUE
           [] a.type = "HYP_VAL_BOOLEAN" -> a.boolean = b.boolean
           [] a.type = "HYP_VAL_NUMBER" -> double_eq(a.number, b.number)
           [] a.type = "HYP_VAL_STRING" -> a.string = b.string
           [] OTHER -> ObjectMember(a) = ObjectMember(b)

hyp_value_is_truthy_without_isnan(v) ==
    CASE v.type = "HYP_VAL_NULL" -> FALSE
      [] v.type = "HYP_VAL_BOOLEAN" -> v.boolean
      [] v.type = "HYP_VAL_NUMBER" -> v.number # 0
      [] v.type = "HYP_VAL_STRING" -> v.string # ""
      [] OTHER -> TRUE

\* value.number != 0.0 && !isnan(value.number); a String holds its characters.
hyp_value_is_truthy(v) ==
    CASE v.type = "HYP_VAL_NULL" -> FALSE
      [] v.type = "HYP_VAL_BOOLEAN" -> v.boolean
      [] v.type = "HYP_VAL_NUMBER" -> v.number # 0 /\ v.number # NaN
      [] v.type = "HYP_VAL_STRING" -> v.string # ""
      [] OTHER -> TRUE

(***************************************************************************)
(* Environments.  runtime.envs is the heap: an environment's address is    *)
(* its index, 0 is NULL.  hyp_environment_destroy frees the frame; the     *)
(* model keeps the frame's last contents and marks it freed, so that a     *)
(* later access through a dangling pointer is seen.                        *)
(***************************************************************************)
NULL == 0

hyp_environment_create(rt, parent) ==
    [rt EXCEPT !.envs = Append(@, [parent |-> parent, names |-> <<>>,
                                   values |-> <<>>, freed |-> FALSE])]

hyp_environment_destroy(rt, env) ==
    IF env = NULL THEN rt ELSE [rt EXCEPT !.envs[env].freed = TRUE]

\* The index of name in the frame's names, 0 when it is not there.
IndexOf(names, name) ==
    IF \E i \in 1..Len(names) : names[i] = name
    THEN CHOOSE i \in 1..Len(names) :
            names[i] = name /\ \A j \in 1..(i - 1) : names[j] # name
    ELSE 0

hyp_environment_define(rt, env, name, value) ==
    IF env = NULL THEN rt
    ELSE LET i == IndexOf(rt.envs[env].names, name) IN
         IF i # 0 THEN [rt EXCEPT !.envs[env].values[i] = value]
         ELSE [rt EXCEPT !.envs[env].names = Append(@, name),
                         !.envs[env].values = Append(@, value)]

\* What a read of a freed frame yields is undefined; freed_read is the outcome
\* this build of the runtime gives (chosen when the runtime is created):
\*   "stale"  the freed memory still holds the frame as it was,
\*   "lost"   the memory was reused: no name matches and the parent reads as NULL,
\*   "crash"  the access faults and the process dies.
FreedReads == {"stale", "lost", "crash"}

\* Then(r, K) is K applied to r: "r = <call>; <rest of the function, using r>".
\* The test makes r be computed before K is entered, as the call is in the C
\* code, rather than where K first uses it.
Then(r, K(_)) == IF r = r THEN K(r) ELSE K(r)

RECURSIVE hyp_environment_get(_, _, _)
hyp_environment_get(rt, env, name) ==
    IF env = NULL THEN [value |-> hyp_value_null, uaf |-> FALSE]
    ELSE Then(rt.envs[env], LAMBDA e :
         IF e.freed /\ rt.freed_read # "stale"
         THEN [value |-> hyp_value_null, uaf |-> TRUE]
         ELSE IF IndexOf(e.names, name) # 0
              THEN [value |-> e.values[IndexOf(e.names, name)], uaf |-> e.freed]
         ELSE IF e.parent # NULL
              THEN Then(hyp_environment_get(rt, e.parent, name), LAMBDA r :
                        [value |-> r.value, uaf |-> r.uaf \/ e.freed])
              ELSE [value |-> hyp_value_null, uaf |-> e.freed])

RECURSIVE hyp_environment_assign(_, _, _, _)
hyp_environment_assign(rt, env, name, value) ==
    IF env = NULL THEN rt
    ELSE LET i == IndexOf(rt.envs[env].names, name) IN
         IF i # 0 THEN [rt EXCEPT !.envs[env].values[i] = value]
         ELSE IF rt.envs[env].parent # NULL
              THEN hyp_environment_assign(rt, rt.envs[env].parent, name, value)
              ELSE hyp_environment_define(rt, env, name, value)

(***************************************************************************)
(* The runtime's error slot, and the record of what one execution did.     *)
(* runtime.trace and runtime.blocks are not fields of hyp_runtime_t.       *)
(* trace lists, in order, the steps the current hyp_runtime_execute_ast    *)
(* call has taken, each with                                               *)
(*   err, old   the error flag and message as they were when the step began*)
(*   err0       the error flag when the construct the step belongs to began*)
(*   env        runtime->current_env at the step                           *)
(*   blocks     how many { } blocks enclose the step                       *)
(*   frame      the environment a define or an assignment writes to        *)
(*   local      whether the name is bound in the frame current_env         *)
(*   depth      how many hyp_runtime_call_function calls are running       *)
(* A "call" step has the callee's parameters and the arguments as val; a   *)
(* "return" step has as frame the current_env the call was entered with.   *)
(* blocks counts the AST_BLOCK_STMT nodes being executed.                  *)
(***************************************************************************)
Ev(kind, what, rt, val) ==
    [ev |-> kind, what |-> what, val |-> val, err |-> rt.has_error,
     old |-> rt.error_message, env |-> rt.current_env, err0 |-> rt.has_error,
     blocks |-> rt.blocks, frame |-> NULL, local |-> FALSE, depth |-> rt.depth]

\* A step of a construct that began in rt0 and writes (if it writes) to frame.
EvIn(kind, what, rt0, rt, val, frame) ==
    [Ev(kind, what, rt, val) EXCEPT
        !.err0 = rt0.has_error, !.frame = frame,
        !.local = \E i \in 1..Len(rt.envs[rt.current_env].names) :
                     rt.envs[rt.current_env].names[i] = what]

Log(rt, e) == [rt EXCEPT !.trace = Append(@, e)]

\* runtime->has_error = true; snprintf(runtime->error_message, ..., msg)
set_error(rt, msg) ==
    Log([rt EXCEPT !.has_error = TRUE, !.error_message = msg],
        Ev("error", msg, rt, hyp_value_null))

R(rt, v) == [rt |-> rt, value |-> v]

\* The run is over before its end: the process died or will never return.
Stopped(rt) == rt.crashed \/ rt.diverged

(***************************************************************************)
(* Built-in functions.                                                     *)
(***************************************************************************)
\* What printf writes for one argument of print ("%g" of an integer Number).
PrintText(v) ==
    CASE v.type = "HYP_VAL_NULL" -> "null"
      [] v.type = "HYP_VAL_BOOLEAN" -> IF v.boolean THEN "true" ELSE "false"
      [] v.type = "HYP_VAL_NUMBER" -> ToString(v.number)
      [] v.type = "HYP_VAL_STRING" -> v.string
      [] v.type = "HYP_VAL_FUNCTION" -> "[Function]"
      [] v.type = "HYP_VAL_NATIVE_FUNCTION" -> "[Native Function]"
      [] OTHER -> "[Unknown]"

RECURSIVE JoinArgs(_, _)
JoinArgs(args, i) ==
    IF i > Len(args) THEN ""
    ELSE PrintText(args[i]) \o (IF i < Len(args) THEN " " ELSE "") \o JoinArgs(args, i + 1)

builtin_print(rt, args) ==
    R([rt EXCEPT !.stdout = Append(@, JoinArgs(args, 1))], hyp_value_null)

builtin_typeof(rt, args) ==
    IF Len(args) # 1 THEN R(set_error(rt, "typeof expects exactly 1 argument"), hyp_value_null)
    ELSE R(rt, hyp_value_string(
            CASE args[1].type = "HYP_VAL_NULL" -> "null"
              [] args[1].type = "HYP_VAL_BOOLEAN" -> "boolean"
              [] args[1].type = "HYP_VAL_NUMBER" -> "number"
              [] args[1].type = "HYP_VAL_STRING" -> "string"
              [] args[1].type = "HYP_VAL_FUNCTION" -> "function"
              [] args[1].type = "HYP_VAL_NATIVE_FUNCTION" -> "function"
              [] OTHER -> "unknown"))

builtin_len(rt, args) ==
    IF Len(args) # 1 THEN R(set_error(rt, "len expects exactly 1 argument"), hyp_value_null)
    ELSE IF args[1].type = "HYP_VAL_STRING"
         THEN R(rt, hyp_value_number(Len(args[1].string)))
         ELSE R(set_error(rt, "len can only be called on strings, arrays, or objects"),
                hyp_value_null)

\* func_value.native_function.native_fn(runtime, args, count)
native_fn(rt, name, args) ==
    CASE name = "print" -> builtin_print(Log(rt, Ev("native", name, rt, hyp_value_null)), args)
      [] name = "typeof" -> builtin_typeof(Log(rt, Ev("native", name, rt, hyp_value_null)), args)
      [] name = "len" -> builtin_len(Log(rt, Ev("native", name, rt, hyp_value_null)), args)

(***************************************************************************)
(* Expression evaluation.                                                  *)
(***************************************************************************)
evaluate_literal(rt, node) ==
    CASE node.type = "AST_NULL" -> R(rt, hyp_value_null)
      [] node.type = "AST_BOOLEAN" -> R(rt, hyp_value_boolean(node.value))
      [] node.type = "AST_NUMBER" -> R(rt, hyp_value_number(node.value))
      [] node.type = "AST_STRING" -> R(rt, hyp_value_string(node.value))
      [] OTHER -> R(set_error(rt, "Unknown literal type"), hyp_value_null)

evaluate_identifier(rt, node) ==
    Then(hyp_environment_get(rt, rt.current_env, node.name), LAMBDA r :
         R(Log([rt EXCEPT !.uaf = @ \/ r.uaf,
                          !.crashed = @ \/ (r.uaf /\ rt.freed_read = "crash")],
               Ev("read", node.name, rt, r.value)), r.value))

BothNumbers(l, r) == l.type = "HYP_VAL_NUMBER" /\ r.type = "HYP_VAL_NUMBER"

InvalidOperands(rt) ==
    R(set_error(rt, "Invalid operands for binary operator"), hyp_value_null)

\* A division that leaves the zero divisor to the arithmetic.
divide_unchecked(rt, left, right) ==
    R(rt, hyp_value_number(double_div(left.number, right.number)))

\* case BINOP_DIV of evaluate_binary, for two Numbers.
divide(rt, left, right) ==
    IF right.number = 0
    THEN R(set_error(rt, "Division by zero"), hyp_value_null)
    ELSE R(rt, hyp_value_number(double_div(left.number, right.number)))

\* The switch of evaluate_binary, applied to the two operand values.
binary_switch(rt, op, left, right) ==
    CASE op = "BINOP_ADD" ->
            IF BothNumbers(left, right)
            THEN R(rt, hyp_value_number(double_add(left.number, right.number)))
            ELSE InvalidOperands(rt)
      [] op = "BINOP_SUB" ->
            IF BothNumbers(left, right)
            THEN R(rt, hyp_value_number(double_sub(left.number, right.number)))
            ELSE InvalidOperands(rt)
      [] op = "BINOP_MUL" ->
            IF BothNumbers(left, right)
            THEN R(rt, hyp_value_number(double_mul(left.number, right.number)))
            ELSE InvalidOperands(rt)
      [] op = "BINOP_DIV" ->
            IF BothNumbers(left, right)
            THEN divide(rt, left, right)
            ELSE InvalidOperands(rt)
      [] op = "BINOP_EQ" -> R(rt, hyp_value_boolean(hyp_value_equals(left, right)))
      [] op = "BINOP_NE" -> R(rt, hyp_value_boolean(~hyp_value_equals(left, right)))
      [] op = "BINOP_LT" ->
            IF BothNumbers(left, right)
            THEN R(rt, hyp_value_boolean(double_lt(left.number, right.number)))
            ELSE InvalidOperands(rt)
      [] op = "BINOP_LE" ->
            IF BothNumbers(left, right)
            THEN R(rt, hyp_value_boolean(double_le(left.number, right.number)))
            ELSE InvalidOperands(rt)
      [] op = "BINOP_GT" ->
            IF BothNumbers(left, right)
            THEN R(rt, hyp_value_boolean(double_lt(right.number, left.number)))
            ELSE InvalidOperands(rt)
      [] op = "BINOP_GE" ->
            IF BothNumbers(left, right)
            THEN R(rt, hyp_value_boolean(double_le(right.number, left.number)))
            ELSE InvalidOperands(rt)
      [] op = "BINOP_AND" -> R(rt, IF ~hyp_value_is_truthy(left) THEN left ELSE right)
      [] op = "BINOP_OR" -> R(rt, IF hyp_value_is_truthy(left) THEN left ELSE right)
      [] OTHER ->
            R(set_error(rt, "Unknown binary operator: " \o ToString(BinopCode(op))),
              hyp_value_null)

RECURSIVE hyp_runtime_eval_expression(_, _)
RECURSIVE evaluate_binary(_, _)

evaluate_binary(rt, node) ==
    Then(hyp_runtime_eval_expression(Log(rt, Ev("operand", "left", rt, hyp_value_null)),
                                     node.left), LAMBDA l :
    IF l.rt.has_error \/ Stopped(l.rt) THEN R(l.rt, hyp_value_null)
    ELSE Then(hyp_runtime_eval_expression(Log(l.rt, Ev("operand", node.op, l.rt, l.value)),
                                          node.right), LAMBDA r :
         IF r.rt.has_error \/ Stopped(r.rt) THEN R(r.rt, hyp_value_null)
         ELSE binary_switch(r.rt, node.op, l.value, r.value)))

hyp_runtime_eval_expression(rt, node) ==
    IF Stopped(rt) THEN R(rt, hyp_value_null)
    ELSE IF node.type = "NULL" THEN R(set_error(rt, "Null AST node"), hyp_value_null)
    ELSE IF node.type \in {"AST_NUMBER", "AST_STRING", "AST_BOOLEAN", "AST_NULL"}
         THEN evaluate_literal(rt, node)
    ELSE IF node.type = "AST_IDENTIFIER" THEN evaluate_identifier(rt, node)
    ELSE IF node.type = "AST_BINARY_OP" THEN evaluate_binary(rt, node)
    ELSE IF node.type = "AST_ASSIGNMENT"
         THEN IF node.target.type # "AST_IDENTIFIER"
              THEN R(set_error(rt, "Invalid assignment target"), hyp_value_null)
              ELSE Then(hyp_runtime_eval_expression(rt, node.value), LAMBDA v :
                   IF Stopped(v.rt) THEN v
                   ELSE R(hyp_environment_assign(
                            Log(v.rt, EvIn("assign", node.target.name, rt, v.rt, v.value,
                                           v.rt.global_env)),
                            v.rt.global_env, node.target.name, v.value), v.value))
    ELSE R(set_error(Log(rt, Ev("unsupported", node.type, rt, hyp_value_null)),
                     "Unsupported AST node type for evaluation"), hyp_value_null)

(***************************************************************************)
(* Statement execution and calls.                                          *)
(***************************************************************************)
RECURSIVE execute_statement(_, _)
RECURSIVE execute_statements(_, _, _, _)
RECURSIVE evaluate_arguments(_, _, _, _, _)
RECURSIVE execute_while(_, _, _, _)
RECURSIVE bind_parameters(_, _, _, _)
RECURSIVE hyp_runtime_call_function(_, _, _)
RECURSIVE statement_switch(_, _)

RECURSIVE execute_statements_until_return(_, _, _, _)
execute_statements_until_return(rt, stmts, i, result) ==
    IF i > Len(stmts) \/ Stopped(rt) THEN R(rt, result)
    ELSE Then(execute_statement(rt, stmts[i]), LAMBDA r :
         IF r.rt.has_error \/ stmts[i].type = "AST_RETURN_STMT" THEN r
         ELSE execute_statements_until_return(r.rt, stmts, i + 1, r.value))

\* The loop of AST_PROGRAM and of AST_BLOCK_STMT, from statement i on:
\*   result = execute_statement(...); if (runtime->has_error) break;
execute_statements(rt, stmts, i, result) ==
    IF i > Len(stmts) \/ Stopped(rt) THEN R(rt, result)
    ELSE Then(execute_statement(rt, stmts[i]), LAMBDA r :
         IF r.rt.has_error THEN r
         ELSE execute_statements(r.rt, stmts, i + 1, r.value))

\* for (i...) args[i] = hyp_runtime_eval_expression(runtime, arguments.data[i]);
\* rt0 is the runtime as it was when the call began.
evaluate_arguments(rt0, rt, arguments, i, args) ==
    IF i > Len(arguments) \/ Stopped(rt) THEN R(rt, args)
    ELSE Then(hyp_runtime_eval_expression(
                Log(rt, EvIn("argument", ToString(i), rt0, rt, hyp_value_null, NULL)),
                arguments[i]),
              LAMBDA r : evaluate_arguments(rt0, r.rt, arguments, i + 1,
                                            Append(args, r.value)))

\* The loop of AST_WHILE_STMT; n counts the iterations made.
execute_while(rt, node, n, result) ==
    IF Stopped(rt) THEN R(rt, result)
    ELSE Then(hyp_runtime_eval_expression(rt, node.condition), LAMBDA c :
         IF Stopped(c.rt) \/ ~hyp_value_is_truthy(c.value) THEN R(c.rt, result)
         ELSE IF n >= MaxLoop THEN R([c.rt EXCEPT !.diverged = TRUE], result)
         ELSE Then(execute_statement(c.rt, node.body), LAMBDA b :
              IF b.rt.has_error THEN b
              ELSE execute_while(b.rt, node, n + 1, b.value)))

\* for (i = 0; i < param_count && i < arg_count; i++) hyp_environment_define(...)
bind_parameters(rt, parameters, args, i) ==
    IF i > Len(parameters) \/ i > Len(args) THEN rt
    ELSE bind_parameters(hyp_environment_define(rt, rt.current_env, parameters[i], args[i]),
                         parameters, args, i + 1)

\* hyp_runtime_call_function restoring the caller's environment only when
\* the body raised no error.
restore_unless_error(rt, prev_env) ==
    IF rt.has_error THEN [rt EXCEPT !.depth = @ - 1]
    ELSE [hyp_environment_destroy(rt, rt.current_env)
            EXCEPT !.current_env = prev_env, !.depth = @ - 1]

\* hyp_environment_destroy(runtime->current_env); runtime->current_env = prev_env;
restore_environment(rt, prev_env) ==
    [hyp_environment_destroy(rt, rt.current_env)
        EXCEPT !.current_env = prev_env, !.depth = @ - 1]

hyp_runtime_call_function(rt, function, args) ==
    IF Stopped(rt) THEN R(rt, hyp_value_null)
    ELSE IF rt.depth >= MaxDepth THEN R([rt EXCEPT !.diverged = TRUE], hyp_value_null)
    ELSE Then(rt.functions[function], LAMBDA fn :
         Then(hyp_environment_create(
                Log(rt, Ev("call", fn.name, rt,
                           [parameters |-> fn.parameters, args |-> args])),
                fn.closure), LAMBDA rt1 :
         Then(execute_statement(
                bind_parameters([rt1 EXCEPT !.current_env = Len(rt1.envs), !.depth = @ + 1],
                                fn.parameters, args, 1),
                fn.body), LAMBDA r :
         IF Stopped(r.rt) THEN r
         ELSE Then(restore_environment(r.rt, rt.current_env), LAMBDA rt2 :
              R(Log(rt2, [Ev("return", fn.name, rt2, r.value)
                            EXCEPT !.frame = rt.current_env]), r.value)))))

\* case AST_FUNCTION_DECL
declare_function(rt, node) ==
    Then(hyp_value_function(Len(rt.functions) + 1), LAMBDA func_value :
         R(hyp_environment_define(
             Log([rt EXCEPT !.functions =
                     Append(@, [name |-> node.name, parameters |-> node.parameters,
                                body |-> node.body, closure |-> rt.current_env])],
                 EvIn("declare", node.name, rt, rt, func_value, rt.global_env)),
             rt.global_env, node.name, func_value), func_value))

\* case AST_CALL
execute_call(rt, node) ==
    IF node.callee.type # "AST_IDENTIFIER"
    THEN R(set_error(rt, "Only simple function calls supported"), hyp_value_null)
    ELSE Then(hyp_environment_get(rt, rt.global_env, node.callee.name).value,
              LAMBDA func_value :
         IF func_value.type = "HYP_VAL_NATIVE_FUNCTION"
         THEN Then(evaluate_arguments(rt, rt, node.arguments, 1, <<>>), LAMBDA a :
                   IF Stopped(a.rt) THEN R(a.rt, hyp_value_null)
                   ELSE native_fn(Log(a.rt, EvIn("invoke", func_value.name, rt, a.rt,
                                                 func_value, NULL)),
                                  func_value.name, a.value))
         ELSE IF func_value.type = "HYP_VAL_FUNCTION"
         THEN Then(evaluate_arguments(rt, rt, node.arguments, 1, <<>>), LAMBDA a :
                   hyp_runtime_call_function(
                       Log(a.rt, EvIn("invoke", node.callee.name, rt, a.rt, func_value, NULL)),
                       func_value.function, a.value))
         ELSE R(set_error(rt, "Function '" \o node.callee.name \o "' not found"),
                hyp_value_null))

\* case AST_VARIABLE_DECL
declare_variable(rt, node) ==
    Then(IF node.initializer.type # "NULL"
         THEN hyp_runtime_eval_expression(rt, node.initializer)
         ELSE R(rt, hyp_value_null), LAMBDA v :
         IF Stopped(v.rt) THEN v
         ELSE R(hyp_environment_define(
                    Log(v.rt, EvIn("define", node.name, rt, v.rt, v.value, v.rt.global_env)),
                    v.rt.global_env, node.name, v.value), v.value))

\* case AST_IF_STMT
execute_if(rt, node) ==
    Then(hyp_runtime_eval_expression(rt, node.condition), LAMBDA c :
         IF Stopped(c.rt) THEN c
         ELSE IF hyp_value_is_truthy(c.value)
         THEN execute_statement(Log(c.rt, EvIn("branch", "then", rt, c.rt, c.value, NULL)),
                                node.then_stmt)
         ELSE IF node.else_stmt.type # "NULL"
         THEN execute_statement(Log(c.rt, EvIn("branch", "else", rt, c.rt, c.value, NULL)),
                                node.else_stmt)
         ELSE R(c.rt, hyp_value_null))

\* The switch of execute_statement.
statement_switch(rt, node) ==
    CASE node.type = "AST_PROGRAM" -> execute_statements(rt, node.statements, 1, hyp_value_null)
      [] node.type = "AST_FUNCTION_DECL" -> declare_function(rt, node)
      [] node.type = "AST_CALL" -> execute_call(rt, node)
      [] node.type = "AST_VARIABLE_DECL" -> declare_variable(rt, node)
      [] node.type = "AST_IF_STMT" -> execute_if(rt, node)
      [] node.type = "AST_WHILE_STMT" -> execute_while(rt, node, 0, hyp_value_null)
      [] node.type = "AST_RETURN_STMT" ->
            IF node.value.type # "NULL"
            THEN hyp_runtime_eval_expression(rt, node.value)
            ELSE R(rt, hyp_value_null)
      [] node.type = "AST_BLOCK_STMT" ->
            Then(execute_statements([rt EXCEPT !.blocks = @ + 1], node.statements, 1,
                                    hyp_value_null),
                 LAMBDA r : R([r.rt EXCEPT !.blocks = @ - 1], r.value))
      [] node.type = "AST_EXPRESSION_STMT" -> hyp_runtime_eval_expression(rt, node.expression)
      [] OTHER -> hyp_runtime_eval_expression(rt, node)

execute_statement(rt, node) ==
    IF Stopped(rt) THEN R(rt, hyp_value_null)
    ELSE IF node.type = "NULL" THEN R(set_error(rt, "Null statement node"), hyp_value_null)
    ELSE statement_switch(Log(rt, Ev("statement", node.type, rt, hyp_value_null)), node)

\* An entry that leaves the error flag as the last execution left it.
keep_error_on_entry(rt, ast) == [rt EXCEPT !.trace = <<>>, !.program = ast]

\* runtime->has_error = false; and the record of the execution starts anew.
clear_error_on_entry(rt, ast) ==
    [rt EXCEPT !.has_error = FALSE, !.trace = <<>>, !.program = ast]

\* hyp_runtime_execute_ast: the runtime after the call, and what the call returns.
hyp_runtime_execute_ast(rt, ast) ==
    Then(clear_error_on_entry(rt, ast), LAMBDA rt0 :
    Then(execute_statement(
            hyp_environment_define(
                Log(rt0, [Ev("enter", "execute_ast", rt0, hyp_value_null)
                            EXCEPT !.err0 = rt.has_error]),
                rt.global_env, "print", hyp_value_native_function("print")),
            ast), LAMBDA r :
    Then(hyp_environment_get(r.rt, r.rt.global_env, "main").value, LAMBDA main_func :
    Then(IF Stopped(r.rt) THEN r
         ELSE IF main_func.type = "HYP_VAL_FUNCTION"
         THEN hyp_runtime_call_function(
                Log(Log(r.rt, Ev("toplevel", "main", r.rt, main_func)),
                    Ev("main", "main", r.rt, main_func)),
                main_func.function, <<>>)
         ELSE R(Log(r.rt, Ev("toplevel", "main", r.rt, main_func)), r.value), LAMBDA m :
    Then(IF m.rt.has_error THEN "HYP_ERROR_RUNTIME" ELSE "HYP_OK", LAMBDA code :
    [rt |-> IF Stopped(m.rt) THEN m.rt ELSE Log(m.rt, Ev("exit", code, m.rt, hyp_value_null)),
     code |-> code])))))

hyp_runtime_clear_error(rt) == [rt EXCEPT !.has_error = FALSE, !.error_message = ""]

\* The runtime hyp_runtime_create returns: the global frame with the built-ins.
hyp_runtime_create ==
    hyp_environment_define(
      hyp_environment_define(
        hyp_environment_define(
          [envs |-> <<[parent |-> NULL, names |-> <<>>, values |-> <<>>, freed |-> FALSE]>>,
           functions |-> <<>>, global_env |-> 1, current_env |-> 1,
           has_error |-> FALSE, error_message |-> "",
           stdout |-> <<>>, trace |-> <<>>, program |-> NoNode,
           freed_read |-> "stale", uaf |-> FALSE, crashed |-> FALSE,
           diverged |-> FALSE, depth |-> 0, blocks |-> 0],
          1, "print", hyp_value_native_function("print")),
        1, "typeof", hyp_value_native_function("typeof")),
      1, "len", hyp_value_native_function("len"))

(***************************************************************************)
(* The programs the runtime is given: every sequence of one to MaxStmts    *)
(* top-level statements drawn from Statements.                             *)
(***************************************************************************)
DivZero == Bin("BINOP_DIV", Num(5), Num(0))
BadAdd == Bin("BINOP_ADD", Num(1), Str("s"))

Statements ==
    { VarDecl("x", Num(1)),                                      \* let x = 1;
      VarDecl("x", DivZero),                                     \* let x = 5 / 0;
      ExprStmt(Assign(Id("x"), BadAdd)),                         \* x = 1 + "s";
      If(DivZero, VarDecl("y", Num(1)), VarDecl("y", Num(2))),   \* if (5 / 0) .. else ..
      Call(Id("len"), <<DivZero>>),                              \* len(5 / 0)
      Call(Id("print"), <<DivZero, Id("x")>>),                   \* print(5 / 0, x)
      ExprStmt(Call(Id("print"), <<Num(1)>>)),                   \* print(1);
      ExprStmt(Bin("BINOP_EQ", Call(Id("typeof"), <<Null>>), Str("null"))),
      Block(<<VarDecl("y", Num(7))>>),                           \* { let y = 7; }
      FnDecl("main", <<>>, Block(<<VarDecl("y", Num(3))>>)),     \* fn main() { let y = 3; }
      FnDecl("outer", <<"a">>,                     \* fn outer(a) { fn inner() { return a; } }
             Block(<<FnDecl("inner", <<>>, Block(<<Return(Id("a"))>>))>>)),
      Call(Id("outer"), <<Num(5)>>),                             \* outer(5)
      Call(Id("inner"), <<>>),                                   \* inner()
      FnDecl("f", <<"x">>,                         \* fn f(x) { x = 9; return x; }
             Block(<<ExprStmt(Assign(Id("x"), Num(9))), Return(Id("x"))>>)),
      Call(Id("f"), <<Num(4)>>),                                 \* f(4)
      ExprStmt(Bin("BINOP_AND", Bool(FALSE), DivZero)),          \* false and 5 / 0;
      ExprStmt(Bin("BINOP_OR", Bool(TRUE), Assign(Id("y"), Num(1)))),  \* true or (y = 1);
      While(Bin("BINOP_LT", Id("x"), Num(2)),                    \* while (x < 2) x = x + 1;
            ExprStmt(Assign(Id("x"), Bin("BINOP_ADD", Id("x"), Num(1))))) }

Programs == { Program(s) : s \in UNION { [1..n -> Statements] : n \in 1..MaxStmts } }

(***************************************************************************)
(* The parser (struct hyp_parser).  The lexer is the sequence of token     *)
(* types it will return: parser.tokens, then HYP_TOKEN_EOF for ever.       *)
(* parser.pos is the index of parser->current in that sequence.  A node of *)
(* the tree that stands for one token (a literal, a name) carries the      *)
(* token's index as "at".                                                  *)
(*                                                                         *)
(* hyp_parser_create leaves parser->previous uninitialised (HYP_MALLOC,    *)
(* then advance copies the unset current into it); parser.garbage is what  *)
(* a read of it yields in this build:                                      *)
(*   "semicolon"  its type reads as HYP_TOKEN_SEMICOLON,                   *)
(*   "other"      its type reads as some other value,                      *)
(*   "fault"      as "other", and printing its filename ("%s") faults.     *)
(* parser.diagnostics (what error_at printed), parser.hung, parser.crashed *)
(* and parser.bad_target are not fields of struct hyp_parser.  Nor are     *)
(*   since_clear  the diagnostics printed since panic_mode was last set to *)
(*                false,                                                   *)
(*   burst        the largest value since_clear has had,                   *)
(*   suppressed   whether an error_at call returned without printing,      *)
(*   sync         the last synchronize call: the position of current when  *)
(*                it began (from) and when it returned (to), previous when *)
(*                it began, and current, previous and panic_mode when it   *)
(*                returned.                                                *)
(***************************************************************************)
Garbage == {"semicolon", "other", "fault"}

\* The parse never returns (hung) or the process died (crashed).
Halted(p) == p.hung \/ p.crashed

current(p) ==
    IF Halted(p) \/ p.pos > Len(p.tokens) THEN "HYP_TOKEN_EOF" ELSE p.tokens[p.pos]

\* No synchronize call was made yet.
NoSync == [from |-> 0]

\* What error_at does once it is past its first line.
report(p, token, message) ==
    IF token = "previous" /\ p.previous_unset /\ p.garbage = "fault"
    THEN [p EXCEPT !.panic_mode = TRUE, !.crashed = TRUE]
    ELSE [p EXCEPT !.panic_mode = TRUE, !.had_error = TRUE,
                   !.diagnostics = Append(@, [message |-> message, token |-> token,
                                              pos |-> p.pos]),
                   !.since_clear = @ + 1,
                   !.burst = IF p.since_clear + 1 > @ THEN p.since_clear + 1 ELSE @]

error_at_while_panicking(p, token, message) ==
    IF Halted(p) THEN p ELSE report(p, token, message)

\* error_at(parser, token, message), token being "previous" or "current".
error_at(p, token, message) ==
    IF Halted(p) THEN p
    ELSE IF p.panic_mode THEN [p EXCEPT !.suppressed = TRUE]
    ELSE report(p, token, message)

error(p, message) == error_at(p, "previous", message)

error_at_current(p, message) == error_at(p, "current", message)

\* The for (;;) of advance, after one token was scanned: skip HYP_TOKEN_ERROR tokens.
RECURSIVE scan_past_errors(_)
scan_past_errors(p) ==
    IF current(p) # "HYP_TOKEN_ERROR" THEN p
    ELSE scan_past_errors([error_at_current(p, "lexical error") EXCEPT !.pos = @ + 1])

advance(p) ==
    IF Halted(p) THEN p
    ELSE scan_past_errors([p EXCEPT !.previous = current(p), !.previous_pos = p.pos,
                                    !.previous_unset = FALSE,
                                    !.pos = IF @ > Len(p.tokens) THEN @ ELSE @ + 1])

check(p, type) == current(p) = type

\* match(parser, type) is "check(p, type)" followed, when it holds, by advance(p).
consume(p, type, message) ==
    IF current(p) = type THEN advance(p) ELSE error_at_current(p, message)

SyncKeywords ==
    {"HYP_TOKEN_FN", "HYP_TOKEN_LET", "HYP_TOKEN_CONST", "HYP_TOKEN_IF",
     "HYP_TOKEN_WHILE", "HYP_TOKEN_FOR", "HYP_TOKEN_RETURN"}

RECURSIVE synchronize_loop_past_keywords(_)
synchronize_loop_past_keywords(p) ==
    IF current(p) = "HYP_TOKEN_EOF" THEN p
    ELSE IF p.previous = "HYP_TOKEN_SEMICOLON" THEN p
    ELSE synchronize_loop_past_keywords(advance(p))

RECURSIVE synchronize_loop(_)
synchronize_loop(p) ==
    IF current(p) = "HYP_TOKEN_EOF" THEN p
    ELSE IF p.previous = "HYP_TOKEN_SEMICOLON" THEN p
    ELSE IF current(p) \in SyncKeywords THEN p
    ELSE synchronize_loop(advance(p))

synchronize(p) ==
    Then(synchronize_loop([p EXCEPT !.panic_mode = FALSE, !.since_clear = 0]), LAMBDA q :
         [q EXCEPT !.sync = [from |-> p.pos, to |-> q.pos, previous_from |-> p.previous,
                             current |-> current(q), previous |-> q.previous,
                             panic_mode |-> q.panic_mode]])

\* create_node and the fields the parse functions fill in.
Literal(kind, at) == [type |-> "HYP_AST_LITERAL", literal |-> kind, at |-> at]
Identifier(at) == [type |-> "HYP_AST_IDENTIFIER", at |-> at]
ArrayLiteral(elements) == [type |-> "HYP_AST_ARRAY_LITERAL", elements |-> elements]
ObjectLiteral(properties) == [type |-> "HYP_AST_OBJECT_LITERAL", properties |-> properties]
CallNode(callee, arguments) ==
    [type |-> "HYP_AST_CALL", callee |-> callee, arguments |-> arguments]
MemberAccess(object, at) == [type |-> "HYP_AST_MEMBER_ACCESS", object |-> object, at |-> at]
IndexAccess(object, index) == [type |-> "HYP_AST_INDEX_ACCESS", object |-> object, index |-> index]
Unary(operator, operand) == [type |-> "HYP_AST_UNARY", operator |-> operator, operand |-> operand]
Binary(operator, left, right) ==
    [type |-> "HYP_AST_BINARY", operator |-> operator, left |-> left, right |-> right]
Assignment(target, value) ==
    [type |-> "HYP_AST_ASSIGNMENT", operator |-> "HYP_ASSIGN_SIMPLE",
     target |-> target, value |-> value]

\* What a parse function returns: the parser after it, and the node (NoNode for NULL).
PR(p, node) == [p |-> p, node |-> node]

\* if (node) HYP_ARRAY_PUSH(nodes, node);
Push(nodes, node) == IF node = NoNode THEN nodes ELSE Append(nodes, node)

LiteralKind(type) ==
    CASE type \in {"HYP_TOKEN_TRUE", "HYP_TOKEN_FALSE"} -> "HYP_LITERAL_BOOLEAN"
      [] type = "HYP_TOKEN_NULL" -> "HYP_LITERAL_NULL"
      [] type = "HYP_TOKEN_NUMBER" -> "HYP_LITERAL_NUMBER"
      [] type = "HYP_TOKEN_STRING" -> "HYP_LITERAL_STRING"

\* The operator a parse function stores for the operator token it matched.
OperatorOf(type) ==
    CASE type = "HYP_TOKEN_SLASH" -> "HYP_BINARY_DIVIDE"
      [] type = "HYP_TOKEN_STAR" -> "HYP_BINARY_MULTIPLY"
      [] type = "HYP_TOKEN_PERCENT" -> "HYP_BINARY_MODULO"
      [] type = "HYP_TOKEN_MINUS" -> "HYP_BINARY_SUBTRACT"
      [] type = "HYP_TOKEN_PLUS" -> "HYP_BINARY_ADD"
      [] type = "HYP_TOKEN_GREATER" -> "HYP_BINARY_GREATER"
      [] type = "HYP_TOKEN_GREATER_EQUAL" -> "HYP_BINARY_GREATER_EQUAL"
      [] type = "HYP_TOKEN_LESS" -> "HYP_BINARY_LESS"
      [] type = "HYP_TOKEN_LESS_EQUAL" -> "HYP_BINARY_LESS_EQUAL"
      [] type = "HYP_TOKEN_BANG_EQUAL" -> "HYP_BINARY_NOT_EQUAL"
      [] type = "HYP_TOKEN_EQUAL_EQUAL" -> "HYP_BINARY_EQUAL"
      [] type \in {"HYP_TOKEN_AND", "HYP_TOKEN_AND_AND"} -> "HYP_BINARY_AND"
      [] type \in {"HYP_TOKEN_OR", "HYP_TOKEN_OR_OR"} -> "HYP_BINARY_OR"

(***************************************************************************)
(* Expression parsing.                                                     *)
(***************************************************************************)
RECURSIVE parse_primary(_)
RECURSIVE array_elements(_, _)
RECURSIVE object_properties(_, _)
RECURSIVE call_arguments(_, _)
RECURSIVE call_loop(_, _)
RECURSIVE parse_unary(_)
RECURSIVE factor_loop(_, _, _)
RECURSIVE term_loop(_, _, _)
RECURSIVE comparison_loop(_, _, _)
RECURSIVE equality_loop(_, _, _)
RECURSIVE logical_and_loop(_, _, _)
RECURSIVE logical_or_loop(_, _, _)
RECURSIVE parse_assignment(_)

parse_expression(p) == parse_assignment(p)

\* do { element = parse_expression(); ... } while (match(HYP_TOKEN_COMMA));
array_elements(p, elements) ==
    Then(parse_expression(p), LAMBDA e :
         IF check(e.p, "HYP_TOKEN_COMMA")
         THEN array_elements(advance(e.p), Push(elements, e.node))
         ELSE PR(e.p, Push(elements, e.node)))

\* The do-while of the object literal, one property per iteration.
object_properties(p, properties) ==
    IF ~(check(p, "HYP_TOKEN_IDENTIFIER") \/ check(p, "HYP_TOKEN_STRING"))
    THEN PR(error(p, "Expected property name"), properties)
    ELSE Then(parse_expression(consume(advance(p), "HYP_TOKEN_COLON",
                                       "Expected ':' after property name")), LAMBDA v :
         IF check(v.p, "HYP_TOKEN_COMMA")
         THEN object_properties(advance(v.p),
                                Append(properties, [key |-> p.pos, value |-> v.node]))
         ELSE PR(v.p, Append(properties, [key |-> p.pos, value |-> v.node])))

parse_primary(p) ==
    CASE current(p) \in {"HYP_TOKEN_TRUE", "HYP_TOKEN_FALSE", "HYP_TOKEN_NULL",
                         "HYP_TOKEN_NUMBER", "HYP_TOKEN_STRING"} ->
            PR(advance(p), Literal(LiteralKind(current(p)), p.pos))
      [] current(p) = "HYP_TOKEN_IDENTIFIER" -> PR(advance(p), Identifier(p.pos))
      [] current(p) = "HYP_TOKEN_LEFT_PAREN" ->
            Then(parse_expression(advance(p)), LAMBDA e :
                 PR(consume(e.p, "HYP_TOKEN_RIGHT_PAREN", "Expected ')' after expression"),
                    e.node))
      [] current(p) = "HYP_TOKEN_LEFT_BRACKET" ->
            Then(IF check(advance(p), "HYP_TOKEN_RIGHT_BRACKET")
                 THEN PR(advance(p), <<>>)
                 ELSE array_elements(advance(p), <<>>), LAMBDA a :
                 PR(consume(a.p, "HYP_TOKEN_RIGHT_BRACKET",
                            "Expected ']' after array elements"), ArrayLiteral(a.node)))
      [] current(p) = "HYP_TOKEN_LEFT_BRACE" ->
            Then(IF check(advance(p), "HYP_TOKEN_RIGHT_BRACE")
                 THEN PR(advance(p), <<>>)
                 ELSE object_properties(advance(p), <<>>), LAMBDA o :
                 PR(consume(o.p, "HYP_TOKEN_RIGHT_BRACE",
                            "Expected '}' after object properties"), ObjectLiteral(o.node)))
      [] OTHER -> PR(error(p, "Expected expression"), NoNode)

\* do { arg = parse_expression(); ... } while (match(HYP_TOKEN_COMMA));
call_arguments(p, arguments) ==
    Then(parse_expression(p), LAMBDA a :
         IF check(a.p, "HYP_TOKEN_COMMA")
         THEN call_arguments(advance(a.p), Push(arguments, a.node))
         ELSE PR(a.p, Push(arguments, a.node)))

\* The while (true) of parse_call.
call_loop(p, expr) ==
    CASE current(p) = "HYP_TOKEN_LEFT_PAREN" ->
            Then(IF check(advance(p), "HYP_TOKEN_RIGHT_PAREN")
                 THEN PR(advance(p), <<>>)
                 ELSE call_arguments(advance(p), <<>>), LAMBDA a :
                 call_loop(consume(a.p, "HYP_TOKEN_RIGHT_PAREN",
                                   "Expected ')' after arguments"), CallNode(expr, a.node)))
      [] current(p) = "HYP_TOKEN_DOT" ->
            Then(consume(advance(p), "HYP_TOKEN_IDENTIFIER",
                         "Expected property name after '.'"), LAMBDA q :
                 call_loop(q, MemberAccess(expr, q.previous_pos)))
      [] current(p) = "HYP_TOKEN_LEFT_BRACKET" ->
            Then(parse_expression(advance(p)), LAMBDA i :
                 call_loop(consume(i.p, "HYP_TOKEN_RIGHT_BRACKET", "Expected ']' after index"),
                           IndexAccess(expr, i.node)))
      [] OTHER -> PR(p, expr)

parse_call(p) == Then(parse_primary(p), LAMBDA e : call_loop(e.p, e.node))

parse_unary(p) ==
    IF current(p) \in {"HYP_TOKEN_BANG", "HYP_TOKEN_MINUS", "HYP_TOKEN_NOT"}
    THEN Then(parse_unary(advance(p)), LAMBDA e :
              PR(e.p, Unary(IF current(p) = "HYP_TOKEN_MINUS"
                            THEN "HYP_UNARY_NEGATE" ELSE "HYP_UNARY_NOT", e.node)))
    ELSE parse_call(p)

\* Each level of the ladder is
\*   expr = next(); while (match(its operators)) expr = Binary(op, expr, next());
\* X_loop(p, operator, left) parses one operand with next(): the first one
\* (operator is "") or the right operand of operator, whose left one is left.
factor_loop(p, operator, left) ==
    Then(parse_unary(p), LAMBDA r :
    Then(IF operator = "" THEN r.node ELSE Binary(operator, left, r.node), LAMBDA expr :
         IF current(r.p) \in {"HYP_TOKEN_SLASH", "HYP_TOKEN_STAR", "HYP_TOKEN_PERCENT"}
         THEN factor_loop(advance(r.p), OperatorOf(current(r.p)), expr)
         ELSE PR(r.p, expr)))

parse_factor(p) == factor_loop(p, "", NoNode)

\* A term level that takes * / % at the level of + and -.
RECURSIVE term_loop_one_level(_, _, _)
term_loop_one_level(p, operator, left) ==
    Then(parse_unary(p), LAMBDA r :
    Then(IF operator = "" THEN r.node ELSE Binary(operator, left, r.node), LAMBDA expr :
         IF current(r.p) \in {"HYP_TOKEN_MINUS", "HYP_TOKEN_PLUS", "HYP_TOKEN_SLASH",
                              "HYP_TOKEN_STAR", "HYP_TOKEN_PERCENT"}
         THEN term_loop_one_level(advance(r.p), OperatorOf(current(r.p)), expr)
         ELSE PR(r.p, expr)))

term_loop(p, operator, left) ==
    Then(parse_factor(p), LAMBDA r :
    Then(IF operator = "" THEN r.node ELSE Binary(operator, left, r.node), LAMBDA expr :
         IF current(r.p) \in {"HYP_TOKEN_MINUS", "HYP_TOKEN_PLUS"}
         THEN term_loop(advance(r.p), OperatorOf(current(r.p)), expr)
         ELSE PR(r.p, expr)))

parse_term(p) == term_loop(p, "", NoNode)

comparison_loop(p, operator, left) ==
    Then(parse_term(p), LAMBDA r :
    Then(IF operator = "" THEN r.node ELSE Binary(operator, left, r.node), LAMBDA expr :
         IF current(r.p) \in {"HYP_TOKEN_GREATER", "HYP_TOKEN_GREATER_EQUAL",
                         "HYP_TOKEN_LESS", "HYP_TOKEN_LESS_EQUAL"}
         THEN comparison_loop(advance(r.p), OperatorOf(current(r.p)), expr)
         ELSE PR(r.p, expr)))

parse_comparison(p) == comparison_loop(p, "", NoNode)

equality_loop(p, operator, left) ==
    Then(parse_comparison(p), LAMBDA r :
    Then(IF operator = "" THEN r.node ELSE Binary(operator, left, r.node), LAMBDA expr :
         IF current(r.p) \in {"HYP_TOKEN_BANG_EQUAL", "HYP_TOKEN_EQUAL_EQUAL"}
         THEN equality_loop(advance(r.p), OperatorOf(current(r.p)), expr)
         ELSE PR(r.p, expr)))

parse_equality(p) == equality_loop(p, "", NoNode)

logical_and_loop(p, operator, left) ==
    Then(parse_equality(p), LAMBDA r :
    Then(IF operator = "" THEN r.node ELSE Binary(operator, left, r.node), LAMBDA expr :
         IF current(r.p) \in {"HYP_TOKEN_AND", "HYP_TOKEN_AND_AND"}
         THEN logical_and_loop(advance(r.p), OperatorOf(current(r.p)), expr)
         ELSE PR(r.p, expr)))

parse_logical_and(p) == logical_and_loop(p, "", NoNode)

logical_or_loop(p, operator, left) ==
    Then(parse_logical_and(p), LAMBDA r :
    Then(IF operator = "" THEN r.node ELSE Binary(operator, left, r.node), LAMBDA expr :
         IF current(r.p) \in {"HYP_TOKEN_OR", "HYP_TOKEN_OR_OR"}
         THEN logical_or_loop(advance(r.p), OperatorOf(current(r.p)), expr)
         ELSE PR(r.p, expr)))

parse_logical_or(p) == logical_or_loop(p, "", NoNode)

\* bad_target records that an assignment node was built on a target that is
\* not an identifier.
parse_assignment(p) ==
    Then(parse_logical_or(p), LAMBDA e :
         IF check(e.p, "HYP_TOKEN_EQUAL")
         THEN Then(parse_assignment(advance(e.p)), LAMBDA v :
                   PR([v.p EXCEPT !.bad_target = @ \/ e.node.type # "HYP_AST_IDENTIFIER"],
                      Assignment(e.node, v.node)))
         ELSE e)

(***************************************************************************)
(* Statement and declaration parsing.                                      *)
(***************************************************************************)
ExpressionStmt(expression) == [type |-> "HYP_AST_EXPRESSION_STMT", expression |-> expression]
BlockNode(statements) == [type |-> "HYP_AST_BLOCK", statements |-> statements]
IfNode(condition, then_branch, else_branch) ==
    [type |-> "HYP_AST_IF", condition |-> condition, then_branch |-> then_branch,
     else_branch |-> else_branch]
WhileNode(condition, body) == [type |-> "HYP_AST_WHILE", condition |-> condition, body |-> body]
ReturnNode(value) == [type |-> "HYP_AST_RETURN", value |-> value]
VarDeclNode(is_const, name, initializer) ==
    [type |-> "HYP_AST_VAR_DECL", is_const |-> is_const, name |-> name,
     initializer |-> initializer]
FunctionNode(name, parameters, body) ==
    [type |-> "HYP_AST_FUNCTION", name |-> name, parameters |-> parameters, body |-> body]
ProgramNode(declarations) == [type |-> "HYP_AST_PROGRAM", declarations |-> declarations]

\* What the control flow of the parser reads: two parsers that agree on it
\* take the same steps from here on.
Control(p) == <<p.pos, p.previous, p.panic_mode>>

RECURSIVE parse_statement(_)
RECURSIVE parse_declaration(_)
RECURSIVE block_loop(_, _)
RECURSIVE function_parameters(_, _)

parse_expression_statement(p) ==
    Then(parse_expression(p), LAMBDA e :
         PR(consume(e.p, "HYP_TOKEN_SEMICOLON", "Expected ';' after expression"),
            ExpressionStmt(e.node)))

\* The while of parse_block_statement.  An iteration that leaves Control as
\* it found it is followed by the same iteration, for ever: the parser hangs.
block_loop(p, statements) ==
    IF check(p, "HYP_TOKEN_RIGHT_BRACE") \/ check(p, "HYP_TOKEN_EOF")
    THEN PR(p, statements)
    ELSE Then(parse_declaration(p), LAMBDA d :
         IF Control(d.p) = Control(p) /\ ~Halted(d.p)
         THEN PR([d.p EXCEPT !.hung = TRUE], Push(statements, d.node))
         ELSE block_loop(d.p, Push(statements, d.node)))

parse_block_statement(p) ==
    Then(block_loop(p, <<>>), LAMBDA b :
         PR(consume(b.p, "HYP_TOKEN_RIGHT_BRACE", "Expected '}' after block"),
            BlockNode(b.node)))

parse_if_statement(p) ==
    Then(parse_expression(consume(p, "HYP_TOKEN_LEFT_PAREN", "Expected '(' after 'if'")),
         LAMBDA c :
    Then(parse_statement(consume(c.p, "HYP_TOKEN_RIGHT_PAREN",
                                 "Expected ')' after if condition")), LAMBDA t :
         IF check(t.p, "HYP_TOKEN_ELSE")
         THEN Then(parse_statement(advance(t.p)), LAMBDA e :
                   PR(e.p, IfNode(c.node, t.node, e.node)))
         ELSE PR(t.p, IfNode(c.node, t.node, NoNode))))

parse_while_statement(p) ==
    Then(parse_expression(consume(p, "HYP_TOKEN_LEFT_PAREN", "Expected '(' after 'while'")),
         LAMBDA c :
    Then(parse_statement(consume(c.p, "HYP_TOKEN_RIGHT_PAREN",
                                 "Expected ')' after while condition")), LAMBDA b :
         PR(b.p, WhileNode(c.node, b.node))))

parse_return_statement(p) ==
    Then(IF ~check(p, "HYP_TOKEN_SEMICOLON") THEN parse_expression(p) ELSE PR(p, NoNode),
         LAMBDA v :
         PR(consume(v.p, "HYP_TOKEN_SEMICOLON", "Expected ';' after return value"),
            ReturnNode(v.node)))

parse_statement(p) ==
    CASE current(p) = "HYP_TOKEN_IF" -> parse_if_statement(advance(p))
      [] current(p) = "HYP_TOKEN_WHILE" -> parse_while_statement(advance(p))
      [] current(p) = "HYP_TOKEN_RETURN" -> parse_return_statement(advance(p))
      [] current(p) = "HYP_TOKEN_LEFT_BRACE" -> parse_block_statement(advance(p))
      [] OTHER -> parse_expression_statement(p)

parse_variable_declaration(p, is_const) ==
    Then(consume(p, "HYP_TOKEN_IDENTIFIER", "Expected variable name"), LAMBDA n :
    Then(IF check(n, "HYP_TOKEN_EQUAL") THEN parse_expression(advance(n)) ELSE PR(n, NoNode),
         LAMBDA i :
         PR(consume(i.p, "HYP_TOKEN_SEMICOLON", "Expected ';' after variable declaration"),
            VarDeclNode(is_const, n.previous_pos, i.node))))

\* do { consume(IDENTIFIER); push(param); } while (match(HYP_TOKEN_COMMA));
function_parameters(p, parameters) ==
    Then(consume(p, "HYP_TOKEN_IDENTIFIER", "Expected parameter name"), LAMBDA n :
         IF check(n, "HYP_TOKEN_COMMA")
         THEN function_parameters(advance(n), Append(parameters, n.previous_pos))
         ELSE PR(n, Append(parameters, n.previous_pos)))

parse_function_declaration(p) ==
    Then(consume(p, "HYP_TOKEN_IDENTIFIER", "Expected function name"), LAMBDA n :
    Then(consume(n, "HYP_TOKEN_LEFT_PAREN", "Expected '(' after function name"), LAMBDA q :
    Then(IF ~check(q, "HYP_TOKEN_RIGHT_PAREN")
         THEN function_parameters(q, <<>>) ELSE PR(q, <<>>), LAMBDA a :
    Then(parse_block_statement(
            consume(consume(a.p, "HYP_TOKEN_RIGHT_PAREN", "Expected ')' after parameters"),
                    "HYP_TOKEN_LEFT_BRACE", "Expected '{' before function body")),
         LAMBDA b : PR(b.p, FunctionNode(n.previous_pos, a.node, b.node))))))

parse_declaration(p) ==
    CASE current(p) \in {"HYP_TOKEN_LET", "HYP_TOKEN_CONST"} ->
            parse_variable_declaration(advance(p), current(p) = "HYP_TOKEN_CONST")
      [] current(p) = "HYP_TOKEN_FN" -> parse_function_declaration(advance(p))
      [] OTHER -> parse_statement(p)

\* The parser hyp_parser_create returns for a lexer that will yield tokens:
\* advance has primed parser->current with the first token.
hyp_parser_create(tokens, garbage) ==
    scan_past_errors(
        [tokens |-> tokens, pos |-> 1, garbage |-> garbage,
         previous |-> IF garbage = "semicolon" THEN "HYP_TOKEN_SEMICOLON" ELSE "UNSET",
         previous_pos |-> 0, previous_unset |-> TRUE,
         had_error |-> FALSE, panic_mode |-> FALSE, diagnostics |-> <<>>,
         since_clear |-> 0, burst |-> 0, suppressed |-> FALSE, sync |-> NoSync,
         hung |-> FALSE, crashed |-> FALSE, bad_target |-> FALSE,
         declarations |-> <<>>, result |-> NoNode])

\* One iteration of the while (!match(HYP_TOKEN_EOF)) of hyp_parser_parse,
\* taken when the match fails: a declaration, then synchronize if panicking.
parse_iteration(p) ==
    Then(parse_declaration(p), LAMBDA d :
    Then([d.p EXCEPT !.declarations = Push(@, d.node)], LAMBDA q :
    Then(IF q.panic_mode /\ ~Halted(q) THEN synchronize(q) ELSE q, LAMBDA r :
         IF Control(r) = Control(p) /\ ~Halted(r) THEN [r EXCEPT !.hung = TRUE] ELSE r)))

\* hyp_parser_parse returning the program whatever had_error says.
parse_return_ignoring_errors(p) ==
    [advance(p) EXCEPT !.result = ProgramNode(p.declarations)]

\* The end of hyp_parser_parse, when match(HYP_TOKEN_EOF) succeeds.
parse_return(p) ==
    [advance(p) EXCEPT !.result = IF p.had_error THEN NoNode ELSE ProgramNode(p.declarations)]

(***************************************************************************)
(* The runtime as a state machine: a host creates the runtime, then calls  *)
(* hyp_runtime_execute_ast and hyp_runtime_clear_error on it.              *)
(***************************************************************************)
ParserIdle == [tokens |-> <<>>]
RuntimeIdle == hyp_runtime_create

InitRuntime ==
    /\ \E freed_read \in FreedReads :
            runtime = [hyp_runtime_create EXCEPT !.freed_read = freed_read]
    /\ runs = 0
    /\ status = "HYP_OK"
    /\ parser = ParserIdle
    /\ ppc = "idle"
    /\ lookup = LookupIdle
    /\ lexer = LexerIdle
    /\ values = ValuesIdle

ExecuteAst(ast) ==
    /\ runs < MaxRuns
    /\ ~Stopped(runtime)
    /\ \E r \in {hyp_runtime_execute_ast(runtime, ast)} :
            runtime' = r.rt /\ status' = r.code
    /\ runs' = runs + 1
    /\ UNCHANGED <<parser, ppc, lookup, lexer, values>>

ClearError ==
    /\ runs > 0
    /\ runtime' = hyp_runtime_clear_error(runtime)
    /\ UNCHANGED <<runs, status, parser, ppc, lookup, lexer, values>>

NextRuntime ==
    \/ \E ast \in Programs : ExecuteAst(ast)
    \/ ClearError

SpecRuntime == InitRuntime /\ [][NextRuntime]_vars

(***************************************************************************)
(* The same host, giving the runtime programs made of calls: functions     *)
(* with parameters, calls with fewer and with more arguments than          *)
(* parameters, a call nested in a call, bodies that raise an error, main.  *)
(***************************************************************************)
CallStatements ==
    { VarDecl("b", Num(1)),                                      \* let b = 1;
      VarDecl("r", Id("nope")),                                  \* let r = nope;
      VarDecl("x", DivZero),                                     \* let x = 5 / 0;
      FnDecl("h", <<"a", "b">>,                    \* fn h(a, b) { let r = b; return a; }
             Block(<<VarDecl("r", Id("b")), Return(Id("a"))>>)),
      Call(Id("h"), <<Num(4)>>),                                 \* h(4)
      Call(Id("h"), <<Num(4), Num(5), Num(6)>>),                 \* h(4, 5, 6)
      Call(Id("h"), <<Num(4), Null>>),                           \* h(4, null)
      FnDecl("bad", <<>>, Block(<<VarDecl("z", DivZero)>>)),     \* fn bad() { let z = 5 / 0; }
      FnDecl("g", <<"a">>,                         \* fn g(a) { bad(); let r = a; }
             Block(<<Call(Id("bad"), <<>>), VarDecl("r", Id("a"))>>)),
      Call(Id("g"), <<Num(2)>>),                                 \* g(2)
      FnDecl("main", <<>>, Block(<<VarDecl("y", Num(3))>>)),     \* fn main() { let y = 3; }
      FnDecl("main", <<>>, Block(<<Call(Id("bad"), <<>>)>>)) }   \* fn main() { bad(); }

CallPrograms ==
    { Program(s) : s \in UNION { [1..n -> CallStatements] : n \in 1..MaxStmts } }

NextCalls ==
    \/ \E ast \in CallPrograms : ExecuteAst(ast)
    \/ ClearError

SpecCalls == InitRuntime /\ [][NextCalls]_vars

(***************************************************************************)
(* The same host, giving the runtime programs with return statements: a    *)
(* body of one to MaxBody statements, each a return with or without a      *)
(* value, a print, an expression or an if around a return, placed in a     *)
(* block, in a function that is called, or in a loop of two iterations.    *)
(***************************************************************************)
MaxBody == 2        \* statements of a body

BodyStatements ==
    { Return(Num(1)),                                            \* return 1;
      Return(NoNode),                                            \* return;
      Call(Id("print"), <<Num(2)>>),                             \* print(2)
      ExprStmt(Num(3)),                                          \* 3;
      If(Bool(TRUE), Return(Num(4)), NoNode) }                   \* if (true) return 4;

Bodies == UNION { [1..n -> BodyStatements] : n \in 1..MaxBody }

\* { body }
BlockProgram(body) == Program(<<Block(body)>>)

\* fn f() { body }  f()
FunctionProgram(body) ==
    Program(<<FnDecl("f", <<>>, Block(body)), Call(Id("f"), <<>>)>>)

\* let x = 0;  while (x < 2) { body  print(x)  x = x + 1; }
LoopProgram(body) ==
    Program(<<VarDecl("x", Num(0)),
              While(Bin("BINOP_LT", Id("x"), Num(2)),
                    Block(body \o <<Call(Id("print"), <<Id("x")>>),
                                    ExprStmt(Assign(Id("x"),
                                                    Bin("BINOP_ADD", Id("x"), Num(1))))>>))>>)

ReturnPrograms ==
    {BlockProgram(body) : body \in Bodies} \cup {FunctionProgram(body) : body \in Bodies}
        \cup {LoopProgram(body) : body \in Bodies}

NextReturns ==
    \/ \E ast \in ReturnPrograms : ExecuteAst(ast)
    \/ ClearError

SpecReturns == InitRuntime /\ [][NextReturns]_vars

(***************************************************************************)
(* The parser as a state machine: a parser is created on a source, then    *)
(* hyp_parser_parse runs on it, one iteration of its loop at a time.       *)
(* ppc is "created", then "loop" while hyp_parser_parse is at the head of  *)
(* its loop, then "done" (it returned), "hung" (it never will) or          *)
(* "crashed".                                                              *)
(***************************************************************************)
MaxTokens == 4      \* tokens of one source, HYP_TOKEN_EOF not counted

TokenTypes ==
    {"HYP_TOKEN_NUMBER", "HYP_TOKEN_IDENTIFIER", "HYP_TOKEN_EQUAL", "HYP_TOKEN_PLUS",
     "HYP_TOKEN_SEMICOLON", "HYP_TOKEN_LEFT_BRACE", "HYP_TOKEN_RIGHT_BRACE",
     "HYP_TOKEN_RIGHT_PAREN", "HYP_TOKEN_LET", "HYP_TOKEN_ERROR"}

Sources == UNION { [1..n -> TokenTypes] : n \in 0..MaxTokens }

MaxOperators == 3   \* binary operators of one expression source

\* One or two operator tokens of each level of the ladder.
OperatorTokens ==
    {"HYP_TOKEN_EQUAL", "HYP_TOKEN_OR_OR", "HYP_TOKEN_AND_AND", "HYP_TOKEN_EQUAL_EQUAL",
     "HYP_TOKEN_LESS", "HYP_TOKEN_PLUS", "HYP_TOKEN_MINUS", "HYP_TOKEN_STAR"}
OperandTokens == {"HYP_TOKEN_NUMBER", "HYP_TOKEN_IDENTIFIER"}

\* operand op operand ... op operand ;
ExpressionSource(operand, operators) ==
    [i \in 1..(2 * Len(operators) + 2) |->
        IF i = 2 * Len(operators) + 2 THEN "HYP_TOKEN_SEMICOLON"
        ELSE IF i % 2 = 1 THEN operand ELSE operators[i \div 2]]

ExpressionSources ==
    {ExpressionSource(operand, operators) :
        operand \in OperandTokens,
        operators \in UNION {[1..n -> OperatorTokens] : n \in 1..MaxOperators}}

InitParser ==
    /\ \E tokens \in Sources \cup ExpressionSources, garbage \in Garbage :
            parser = hyp_parser_create(tokens, garbage)
    /\ ppc = "created"
    /\ runtime = RuntimeIdle
    /\ runs = 0
    /\ status = "HYP_OK"
    /\ lookup = LookupIdle
    /\ lexer = LexerIdle
    /\ values = ValuesIdle

\* hyp_parser_parse up to its loop.
ParseBegin ==
    /\ ppc = "created"
    /\ ppc' = "loop"
    /\ parser' = [parser EXCEPT !.declarations = <<>>]
    /\ UNCHANGED <<runtime, runs, status, lookup, lexer, values>>

ParseIteration ==
    /\ ppc = "loop"
    /\ ~check(parser, "HYP_TOKEN_EOF")
    /\ parser' = parse_iteration(parser)
    /\ ppc' = IF parser'.crashed THEN "crashed" ELSE IF parser'.hung THEN "hung" ELSE "loop"
    /\ UNCHANGED <<runtime, runs, status, lookup, lexer, values>>

ParseReturn ==
    /\ ppc = "loop"
    /\ check(parser, "HYP_TOKEN_EOF")
    /\ parser' = parse_return(parser)
    /\ ppc' = "done"
    /\ UNCHANGED <<runtime, runs, status, lookup, lexer, values>>

NextParser == ParseBegin \/ ParseIteration \/ ParseReturn

SpecParser == InitParser /\ [][NextParser]_vars

(***************************************************************************)
(* The environments of src/src/runtime/hyp_runtime.c, whose variables are  *)
(* a hyp_object_t: a list of (key, value) properties.  lookup.envs is the  *)
(* heap of environments, each with its parent (NULL for the global one);   *)
(* lookup.last is the last hyp_environment_get made, with what the         *)
(* hyp_environment_get of src/unnamed/part_000 returns for the same frames.*)
(* lookup.assigned is the last hyp_environment_assign made, with the       *)
(* frames as they were before it and the frames the hyp_environment_assign *)
(* of src/unnamed/part_000 leaves.                                         *)
(* The functions of this file that share a name with one of part_000 carry *)
(* the prefix hyp_runtime_c_.                                              *)
(***************************************************************************)
MaxEnvs == 2        \* environments created besides the global one

LookupNames == {"x", "y"}
LookupValues == {hyp_value_null, hyp_value_number(1)}

\* The index of key in the object's properties, 0 when it is not there.
PropertyIndex(properties, key) ==
    IF \E i \in 1..Len(properties) : properties[i].key = key
    THEN CHOOSE i \in 1..Len(properties) :
            properties[i].key = key /\ \A j \in 1..(i - 1) : properties[j].key # key
    ELSE 0

hyp_runtime_c_object_set(properties, key, value) ==
    IF PropertyIndex(properties, key) # 0
    THEN [properties EXCEPT ![PropertyIndex(properties, key)].value = value]
    ELSE Append(properties, [key |-> key, value |-> value])

hyp_runtime_c_object_get(properties, key) ==
    IF PropertyIndex(properties, key) # 0
    THEN properties[PropertyIndex(properties, key)].value
    ELSE hyp_value_null

hyp_runtime_c_environment_create(envs, parent) ==
    Append(envs, [parent |-> parent, variables |-> <<>>])

hyp_runtime_c_environment_define(envs, env, name, value) ==
    [envs EXCEPT ![env].variables = hyp_runtime_c_object_set(@, name, value)]

RECURSIVE hyp_runtime_c_environment_get(_, _, _)
hyp_runtime_c_environment_get(envs, env, name) ==
    IF env = NULL THEN hyp_value_null
    ELSE Then(hyp_runtime_c_object_get(envs[env].variables, name), LAMBDA value :
         IF value.type # "HYP_VAL_NULL" \/ envs[env].parent = NULL
         THEN value
         ELSE hyp_runtime_c_environment_get(envs, envs[env].parent, name))

RECURSIVE hyp_runtime_c_environment_assign(_, _, _, _)
hyp_runtime_c_environment_assign(envs, env, name, value) ==
    IF env = NULL THEN envs
    ELSE IF hyp_runtime_c_object_get(envs[env].variables, name).type # "HYP_VAL_NULL"
         THEN [envs EXCEPT ![env].variables = hyp_runtime_c_object_set(@, name, value)]
    ELSE IF envs[env].parent # NULL
         THEN hyp_runtime_c_environment_assign(envs, envs[env].parent, name, value)
    ELSE hyp_runtime_c_environment_define(envs, env, name, value)

\* The same frames as a heap of part_000 environments (names and values).
AsPart000(envs) ==
    [envs |-> [e \in 1..Len(envs) |->
                 [parent |-> envs[e].parent,
                  names |-> [k \in 1..Len(envs[e].variables) |-> envs[e].variables[k].key],
                  values |-> [k \in 1..Len(envs[e].variables) |-> envs[e].variables[k].value],
                  freed |-> FALSE]],
     freed_read |-> "stale"]

\* The frames of a heap of part_000 environments, as lists of properties.
FromPart000(rt) ==
    [e \in 1..Len(rt.envs) |->
        [parent |-> rt.envs[e].parent,
         variables |-> [k \in 1..Len(rt.envs[e].names) |->
                            [key |-> rt.envs[e].names[k], value |-> rt.envs[e].values[k]]]]]

NoLookup == [env |-> NULL]
NoAssign == [env |-> NULL]

InitLookup ==
    /\ lookup = [envs |-> hyp_runtime_c_environment_create(<<>>, NULL), last |-> NoLookup, assigned |-> NoAssign]
    /\ runtime = RuntimeIdle
    /\ runs = 0
    /\ status = "HYP_OK"
    /\ parser = ParserIdle
    /\ ppc = "idle"
    /\ lexer = LexerIdle
    /\ values = ValuesIdle

EnvCreate(parent) ==
    /\ Len(lookup.envs) <= MaxEnvs
    /\ lookup' = [envs |-> hyp_runtime_c_environment_create(lookup.envs, parent),
                  last |-> NoLookup, assigned |-> NoAssign]
    /\ UNCHANGED <<runtime, runs, status, parser, ppc, lexer, values>>

EnvDefine(env, name, value) ==
    /\ lookup' = [envs |-> hyp_runtime_c_environment_define(lookup.envs, env, name, value),
                  last |-> NoLookup, assigned |-> NoAssign]
    /\ UNCHANGED <<runtime, runs, status, parser, ppc, lexer, values>>

EnvAssign(env, name, value) ==
    /\ lookup' = [envs |-> hyp_runtime_c_environment_assign(lookup.envs, env, name, value),
                  last |-> NoLookup,
                  assigned |->
                    [env |-> env, name |-> name, value |-> value, before |-> lookup.envs,
                     part_000 |-> FromPart000(
                        hyp_environment_assign(AsPart000(lookup.envs), env, name, value))]]
    /\ UNCHANGED <<runtime, runs, status, parser, ppc, lexer, values>>

EnvGet(env, name) ==
    /\ lookup' = [lookup EXCEPT !.assigned = NoAssign, !.last =
                    [env |-> env, name |-> name,
                     value |-> hyp_runtime_c_environment_get(lookup.envs, env, name),
                     value_part_000 |->
                        hyp_environment_get(AsPart000(lookup.envs), env, name).value]]
    /\ UNCHANGED <<runtime, runs, status, parser, ppc, lexer, values>>

NextLookup ==
    \/ \E parent \in 1..Len(lookup.envs) : EnvCreate(parent)
    \/ \E env \in 1..Len(lookup.envs), name \in LookupNames, value \in LookupValues :
            EnvDefine(env, name, value)
    \/ \E env \in 1..Len(lookup.envs), name \in LookupNames, value \in LookupValues :
            EnvAssign(env, name, value)
    \/ \E env \in 1..Len(lookup.envs), name \in LookupNames : EnvGet(env, name)

SpecLookup == InitLookup /\ [][NextLookup]_vars

(***************************************************************************)
(* The objects of src/unnamed/part_000: properties in an array that grows  *)
(* by doubling.  A user makes one object and one environment and gives     *)
(* both the same hyp_object_set / hyp_environment_define calls;            *)
(* lookup.sets lists the calls made (not part of the C structs), and       *)
(* lookup.last is the last hyp_object_get, with what hyp_environment_get   *)
(* returns for the same key.                                               *)
(***************************************************************************)
MaxSets == 4        \* hyp_object_set calls on one object

ObjectKeys == {"x", "y", "z"}
ObjectValues == {hyp_value_null, hyp_value_number(1), hyp_value_number(2)}

hyp_object_create == [properties |-> <<>>, capacity |-> 0]

hyp_object_set_appending(object, key, value) ==
    [properties |-> Append(object.properties, [key |-> key, value |-> value]),
     capacity |-> IF Len(object.properties) >= object.capacity
                  THEN IF object.capacity = 0 THEN 8 ELSE object.capacity * 2
                  ELSE object.capacity]

hyp_object_set(object, key, value) ==
    IF PropertyIndex(object.properties, key) # 0
    THEN [object EXCEPT !.properties[PropertyIndex(object.properties, key)].value = value]
    ELSE [properties |-> Append(object.properties, [key |-> key, value |-> value]),
          capacity |-> IF Len(object.properties) >= object.capacity
                       THEN IF object.capacity = 0 THEN 8 ELSE object.capacity * 2
                       ELSE object.capacity]

hyp_object_get(object, key) ==
    IF PropertyIndex(object.properties, key) # 0
    THEN object.properties[PropertyIndex(object.properties, key)].value
    ELSE hyp_value_null

NoGet == [key |-> ""]

InitObjects ==
    /\ lookup = [object |-> hyp_object_create,
                 envs |-> <<[parent |-> NULL, names |-> <<>>, values |-> <<>>,
                             freed |-> FALSE]>>,
                 freed_read |-> "stale", sets |-> <<>>, last |-> NoGet]
    /\ runtime = RuntimeIdle
    /\ runs = 0
    /\ status = "HYP_OK"
    /\ parser = ParserIdle
    /\ ppc = "idle"
    /\ lexer = LexerIdle
    /\ values = ValuesIdle

ObjectSet(key, value) ==
    /\ Len(lookup.sets) < MaxSets
    /\ lookup' = [hyp_environment_define(lookup, 1, key, value) EXCEPT
                    !.object = hyp_object_set(@, key, value),
                    !.sets = Append(@, [key |-> key, value |-> value]),
                    !.last = NoGet]
    /\ UNCHANGED <<runtime, runs, status, parser, ppc, lexer, values>>

ObjectGet(key) ==
    /\ lookup' = [lookup EXCEPT !.last =
                    [key |-> key, value |-> hyp_object_get(lookup.object, key),
                     variable |-> hyp_environment_get(lookup, 1, key).value]]
    /\ UNCHANGED <<runtime, runs, status, parser, ppc, lexer, values>>

NextObjects ==
    \/ \E key \in ObjectKeys, value \in ObjectValues : ObjectSet(key, value)
    \/ \E key \in ObjectKeys : ObjectGet(key)

SpecObjects == InitObjects /\ [][NextObjects]_vars

(***************************************************************************)
(* The lexer of src/src/lexer/lexer.c.  A source is a sequence of           *)
(* characters, each a string; position k is the k-th character and the     *)
(* position Len(source) + 1 is the terminating NUL.  HighByte stands for   *)
(* one byte of the range 0x80..0xFF (one byte of a UTF-8 letter): as a      *)
(* plain char it is negative, and handing it to isalpha, isdigit or        *)
(* isalnum is undefined; lexer.ctype is what the C library of the build    *)
(* does with it: classify it as a letter ("alpha"), as nothing ("other"),  *)
(* or stop the program at its range assertion ("fault").                   *)
(***************************************************************************)
NUL == "NUL"
HighByte == "0xC3"
Letters == {"a", "b", "c", "d", "e", "f", "g", "h", "i", "j", "k", "l", "m",
            "n", "o", "p", "q", "r", "s", "t", "u", "v", "w", "x", "y", "z", "E"}
Digits == {"0", "1", "2", "3", "4", "5", "6", "7", "8", "9"}
CtypeOutcomes == {"alpha", "other", "fault"}

keywords == <<
    [keyword |-> <<"l", "e", "t">>, type |-> "HYP_TOKEN_LET"],
    [keyword |-> <<"c", "o", "n", "s", "t">>, type |-> "HYP_TOKEN_CONST"],
    [keyword |-> <<"f", "n">>, type |-> "HYP_TOKEN_FN"],
    [keyword |-> <<"i", "f">>, type |-> "HYP_TOKEN_IF"],
    [keyword |-> <<"e", "l", "s", "e">>, type |-> "HYP_TOKEN_ELSE"],
    [keyword |-> <<"w", "h", "i", "l", "e">>, type |-> "HYP_TOKEN_WHILE"],
    [keyword |-> <<"f", "o", "r">>, type |-> "HYP_TOKEN_FOR"],
    [keyword |-> <<"i", "n">>, type |-> "HYP_TOKEN_IN"],
    [keyword |-> <<"r", "e", "t", "u", "r", "n">>, type |-> "HYP_TOKEN_RETURN"],
    [keyword |-> <<"b", "r", "e", "a", "k">>, type |-> "HYP_TOKEN_BREAK"],
    [keyword |-> <<"c", "o", "n", "t", "i", "n", "u", "e">>, type |-> "HYP_TOKEN_CONTINUE"],
    [keyword |-> <<"m", "a", "t", "c", "h">>, type |-> "HYP_TOKEN_MATCH"],
    [keyword |-> <<"c", "a", "s", "e">>, type |-> "HYP_TOKEN_CASE"],
    [keyword |-> <<"d", "e", "f", "a", "u", "l", "t">>, type |-> "HYP_TOKEN_DEFAULT"],
    [keyword |-> <<"s", "t", "r", "u", "c", "t">>, type |-> "HYP_TOKEN_STRUCT"],
    [keyword |-> <<"e", "n", "u", "m">>, type |-> "HYP_TOKEN_ENUM"],
    [keyword |-> <<"i", "m", "p", "o", "r", "t">>, type |-> "HYP_TOKEN_IMPORT"],
    [keyword |-> <<"e", "x", "p", "o", "r", "t">>, type |-> "HYP_TOKEN_EXPORT"],
    [keyword |-> <<"m", "o", "d", "u", "l", "e">>, type |-> "HYP_TOKEN_MODULE"],
    [keyword |-> <<"t", "r", "u", "e">>, type |-> "HYP_TOKEN_TRUE"],
    [keyword |-> <<"f", "a", "l", "s", "e">>, type |-> "HYP_TOKEN_FALSE"],
    [keyword |-> <<"n", "u", "l", "l">>, type |-> "HYP_TOKEN_NULL"],
    [keyword |-> <<"a", "n", "d">>, type |-> "HYP_TOKEN_AND"],
    [keyword |-> <<"o", "r">>, type |-> "HYP_TOKEN_OR"],
    [keyword |-> <<"n", "o", "t">>, type |-> "HYP_TOKEN_NOT"],
    [keyword |-> <<"a", "s", "y", "n", "c">>, type |-> "HYP_TOKEN_ASYNC"],
    [keyword |-> <<"a", "w", "a", "i", "t">>, type |-> "HYP_TOKEN_AWAIT"],
    [keyword |-> <<"t", "r", "y">>, type |-> "HYP_TOKEN_TRY"],
    [keyword |-> <<"c", "a", "t", "c", "h">>, type |-> "HYP_TOKEN_CATCH"],
    [keyword |-> <<"f", "i", "n", "a", "l", "l", "y">>, type |-> "HYP_TOKEN_FINALLY"],
    [keyword |-> <<"t", "h", "r", "o", "w">>, type |-> "HYP_TOKEN_THROW"],
    [keyword |-> <<"s", "t", "a", "t", "e">>, type |-> "HYP_TOKEN_STATE"]
>>

\* A ctype call on c that ends the program.
ctype_faults(lx, c) == c = HighByte /\ lx.ctype = "fault"
isalpha(lx, c) == c \in Letters \/ (c = HighByte /\ lx.ctype = "alpha")
isdigit(lx, c) == c \in Digits
isalnum(lx, c) == isalpha(lx, c) \/ isdigit(lx, c)
crash(lx) == [lx EXCEPT !.crashed = TRUE]

is_at_end(lx) == lx.current > Len(lx.source)
peek(lx) == IF is_at_end(lx) THEN NUL ELSE lx.source[lx.current]
peek_next(lx) ==
    IF is_at_end(lx) \/ lx.current + 1 > Len(lx.source) THEN NUL
    ELSE lx.source[lx.current + 1]

\* advance of lexer.c; the character it returns is peek(lx) of the lexer before.
lexer_advance(lx) ==
    IF is_at_end(lx) THEN lx
    ELSE [lx EXCEPT !.current = @ + 1,
                    !.line = IF peek(lx) = "\n" THEN @ + 1 ELSE @,
                    !.column = IF peek(lx) = "\n" THEN 1 ELSE @ + 1]

\* match of lexer.c: the lexer after it and what it returned.
lexer_match(lx, expected) ==
    IF is_at_end(lx) \/ peek(lx) # expected
    THEN [lexer |-> lx, matched |-> FALSE]
    ELSE [lexer |-> lexer_advance(lx), matched |-> TRUE]

\* token.column is lexer->column - token.length in size_t: it wraps when the
\* token is longer than the column, which "wrapped" stands for.
make_token(lx, type) ==
    [lx EXCEPT !.token = [type |-> type, start |-> lx.start,
                          length |-> lx.current - lx.start, line |-> lx.line,
                          column |-> IF lx.column >= lx.current - lx.start
                                     THEN lx.column - (lx.current - lx.start)
                                     ELSE "wrapped"]]

\* The start of an error token is the message, its length the message's.
error_token(lx, message) ==
    [lx EXCEPT !.token = [type |-> "HYP_TOKEN_ERROR", start |-> message,
                          length |-> 0, line |-> lx.line, column |-> lx.column]]

RECURSIVE skip_line_comment(_)
skip_line_comment(lx) ==
    IF peek(lx) # "\n" /\ ~is_at_end(lx) THEN skip_line_comment(lexer_advance(lx))
    ELSE lx

RECURSIVE skip_block_comment(_)
skip_block_comment(lx) ==
    IF is_at_end(lx) THEN lx
    ELSE IF peek(lx) = "*" /\ peek_next(lx) = "/" THEN lexer_advance(lexer_advance(lx))
    ELSE skip_block_comment(lexer_advance(lx))

RECURSIVE skip_whitespace(_)
skip_whitespace(lx) ==
    IF peek(lx) \in {" ", "\r", "\t", "\n"} THEN skip_whitespace(lexer_advance(lx))
    ELSE IF peek(lx) = "/" /\ peek_next(lx) = "/"
         THEN skip_whitespace(skip_line_comment(lx))
    ELSE IF peek(lx) = "/" /\ peek_next(lx) = "*"
         THEN skip_whitespace(skip_block_comment(lexer_advance(lexer_advance(lx))))
    ELSE lx

RECURSIVE scan_string(_, _)
scan_string(lx, quote) ==
    IF peek(lx) # quote /\ ~is_at_end(lx)
    THEN scan_string(IF peek(lx) = "\\" THEN lexer_advance(lexer_advance(lx))
                     ELSE lexer_advance(lx), quote)
    ELSE IF is_at_end(lx) THEN error_token(lx, "Unterminated string")
    ELSE make_token(lexer_advance(lx), "HYP_TOKEN_STRING")

\* while (isdigit(peek(lexer))) advance(lexer);
RECURSIVE scan_digits(_)
scan_digits(lx) ==
    IF ctype_faults(lx, peek(lx)) THEN crash(lx)
    ELSE IF isdigit(lx, peek(lx)) THEN scan_digits(lexer_advance(lx))
    ELSE lx

scan_fraction(lx) ==
    IF peek(lx) # "." THEN lx
    ELSE IF ctype_faults(lx, peek_next(lx)) THEN crash(lx)
    ELSE IF isdigit(lx, peek_next(lx)) THEN scan_digits(lexer_advance(lx))
    ELSE lx

scan_exponent(lx) ==
    IF lx.crashed \/ peek(lx) \notin {"e", "E"} THEN lx
    ELSE Then(lexer_advance(lx), LAMBDA l1 :
            scan_digits(IF peek(l1) \in {"+", "-"} THEN lexer_advance(l1) ELSE l1))

scan_number(lx) ==
    Then(scan_digits(lx), LAMBDA l1 :
        IF l1.crashed THEN l1
        ELSE Then(scan_exponent(scan_fraction(l1)), LAMBDA l2 :
                IF l2.crashed THEN l2 ELSE make_token(l2, "HYP_TOKEN_NUMBER")))

\* The characters start .. current - 1 of the source.
Lexeme(lx) == SubSeq(lx.source, lx.start, lx.current - 1)

check_keyword_identifier_only(text) == "HYP_TOKEN_IDENTIFIER"

check_keyword(text) ==
    IF \E i \in 1..Len(keywords) : keywords[i].keyword = text
    THEN keywords[CHOOSE i \in 1..Len(keywords) : keywords[i].keyword = text].type
    ELSE "HYP_TOKEN_IDENTIFIER"

RECURSIVE scan_identifier(_)
scan_identifier(lx) ==
    IF ctype_faults(lx, peek(lx)) THEN crash(lx)
    ELSE IF isalnum(lx, peek(lx)) \/ peek(lx) = "_" THEN scan_identifier(lexer_advance(lx))
    ELSE make_token(lx, check_keyword(Lexeme(lx)))

RECURSIVE scan_jsx_identifier(_)
scan_jsx_identifier(lx) ==
    IF ctype_faults(lx, peek(lx)) THEN crash(lx)
    ELSE IF isalnum(lx, peek(lx)) \/ peek(lx) \in {"_", "-"}
         THEN scan_jsx_identifier(lexer_advance(lx))
    ELSE make_token(lx, "HYP_TOKEN_JSX_ATTRIBUTE")

\* The loop counts a newline itself and advance counts it again.
RECURSIVE scan_jsx_text(_)
scan_jsx_text(lx) ==
    IF ~is_at_end(lx) /\ peek(lx) \notin {"<", "{"}
    THEN scan_jsx_text(lexer_advance(
            [lx EXCEPT !.line = IF peek(lx) = "\n" THEN @ + 1 ELSE @]))
    ELSE make_token(lx, "HYP_TOKEN_JSX_TEXT")

RECURSIVE jsx_expression_loop(_, _)
jsx_expression_loop(lx, brace_count) ==
    IF ~is_at_end(lx) /\ brace_count > 0
    THEN jsx_expression_loop(
            lexer_advance([lx EXCEPT !.line = IF peek(lx) = "\n" THEN @ + 1 ELSE @]),
            IF peek(lx) = "{" THEN brace_count + 1
            ELSE IF peek(lx) = "}" THEN brace_count - 1 ELSE brace_count)
    ELSE make_token(lx, "HYP_TOKEN_JSX_EXPRESSION")

\* The opening brace is already consumed when this is called; the advance
\* "consume opening {" takes the character after it.
scan_jsx_expression(lx) == jsx_expression_loop(lexer_advance(lx), 1)


\* A chain "if (match(lexer, x)) return make_token(lexer, T); else if ..." that
\* ends in "return make_token(lexer, otherwise)": match consumes only the
\* character it accepts, so the first alternative that fits decides.
match_chain(lx, alternatives, otherwise) ==
    IF \E i \in 1..Len(alternatives) : lexer_match(lx, alternatives[i].expected).matched
    THEN make_token(lexer_advance(lx),
            alternatives[CHOOSE i \in 1..Len(alternatives) :
                /\ lexer_match(lx, alternatives[i].expected).matched
                /\ \A j \in 1..(i - 1) :
                        ~lexer_match(lx, alternatives[j].expected).matched].type)
    ELSE make_token(lx, otherwise)

Alt(expected, type) == [expected |-> expected, type |-> type]

\* case '<' of the switch.
scan_less(lx) ==
    IF peek(lx) \in {"=", "<", "/"}
    THEN match_chain(lx, <<Alt("=", "HYP_TOKEN_LESS_EQUAL"), Alt("<", "HYP_TOKEN_LEFT_SHIFT"),
                           Alt("/", "HYP_TOKEN_JSX_END_TAG")>>, "HYP_TOKEN_LESS")
    ELSE IF ctype_faults(lx, peek(lx)) THEN crash(lx)
    ELSE IF isalpha(lx, peek(lx))
         THEN make_token([lx EXCEPT !.in_jsx = TRUE, !.jsx_depth = @ + 1],
                         "HYP_TOKEN_JSX_OPEN_TAG")
    ELSE make_token(lx, "HYP_TOKEN_LESS")

\* case '>' of the switch.
scan_greater(lx) ==
    match_chain(lx, <<Alt("=", "HYP_TOKEN_GREATER_EQUAL"), Alt(">", "HYP_TOKEN_RIGHT_SHIFT")>>,
                IF lx.in_jsx THEN "HYP_TOKEN_JSX_CLOSE_TAG" ELSE "HYP_TOKEN_GREATER")

scan_slash_outside_markup(lx) ==
    IF lexer_match(lx, "=").matched
    THEN make_token(lexer_advance(lx), "HYP_TOKEN_SLASH_EQUAL")
    ELSE Then(lexer_match(lx, ">"), LAMBDA m :
            IF m.matched
            THEN make_token([m.lexer EXCEPT !.jsx_depth = @ - 1,
                                            !.in_jsx = (m.lexer.jsx_depth - 1 # 0)],
                            "HYP_TOKEN_JSX_SELF_CLOSE")
            ELSE make_token(m.lexer, "HYP_TOKEN_SLASH"))

\* case '/' of the switch: match(lexer, '>') consumes the '>' before in_jsx is
\* looked at.
scan_slash(lx) ==
    IF lexer_match(lx, "=").matched
    THEN make_token(lexer_advance(lx), "HYP_TOKEN_SLASH_EQUAL")
    ELSE Then(lexer_match(lx, ">"), LAMBDA m :
            IF m.matched /\ m.lexer.in_jsx
            THEN make_token([m.lexer EXCEPT !.jsx_depth = @ - 1,
                                            !.in_jsx = (m.lexer.jsx_depth - 1 # 0)],
                            "HYP_TOKEN_JSX_SELF_CLOSE")
            ELSE make_token(m.lexer, "HYP_TOKEN_SLASH"))

SingleCharacterTokens ==
    [c \in {"(", ")", "}", "[", "]", ",", ".", ";", ":", "?", "~"} |->
        CASE c = "(" -> "HYP_TOKEN_LEFT_PAREN"
          [] c = ")" -> "HYP_TOKEN_RIGHT_PAREN"
          [] c = "}" -> "HYP_TOKEN_RIGHT_BRACE"
          [] c = "[" -> "HYP_TOKEN_LEFT_BRACKET"
          [] c = "]" -> "HYP_TOKEN_RIGHT_BRACKET"
          [] c = "," -> "HYP_TOKEN_COMMA"
          [] c = "." -> "HYP_TOKEN_DOT"
          [] c = ";" -> "HYP_TOKEN_SEMICOLON"
          [] c = ":" -> "HYP_TOKEN_COLON"
          [] c = "?" -> "HYP_TOKEN_QUESTION"
          [] c = "~" -> "HYP_TOKEN_TILDE"]

\* The switch of hyp_lexer_scan_token on the character c just consumed.
scan_punctuation(lx, c) ==
    CASE c \in DOMAIN SingleCharacterTokens -> make_token(lx, SingleCharacterTokens[c])
      [] c = "{" -> IF lx.in_jsx THEN scan_jsx_expression(lx)
                    ELSE make_token(lx, "HYP_TOKEN_LEFT_BRACE")
      [] c \in {"\"", "'"} -> scan_string(lx, c)
      [] c = "!" -> match_chain(lx, <<Alt("=", "HYP_TOKEN_BANG_EQUAL")>>, "HYP_TOKEN_BANG")
      [] c = "=" -> match_chain(lx, <<Alt("=", "HYP_TOKEN_EQUAL_EQUAL"),
                                      Alt(">", "HYP_TOKEN_ARROW")>>, "HYP_TOKEN_EQUAL")
      [] c = "<" -> scan_less(lx)
      [] c = ">" -> scan_greater(lx)
      [] c = "+" -> match_chain(lx, <<Alt("=", "HYP_TOKEN_PLUS_EQUAL"),
                                      Alt("+", "HYP_TOKEN_PLUS_PLUS")>>, "HYP_TOKEN_PLUS")
      [] c = "-" -> match_chain(lx, <<Alt("=", "HYP_TOKEN_MINUS_EQUAL"),
                                      Alt("-", "HYP_TOKEN_MINUS_MINUS")>>, "HYP_TOKEN_MINUS")
      [] c = "*" -> match_chain(lx, <<Alt("=", "HYP_TOKEN_STAR_EQUAL"),
                                      Alt("*", "HYP_TOKEN_STAR_STAR")>>, "HYP_TOKEN_STAR")
      [] c = "/" -> scan_slash(lx)
      [] c = "%" -> match_chain(lx, <<Alt("=", "HYP_TOKEN_PERCENT_EQUAL")>>, "HYP_TOKEN_PERCENT")
      [] c = "&" -> match_chain(lx, <<Alt("&", "HYP_TOKEN_AND_AND"),
                                      Alt("=", "HYP_TOKEN_AND_EQUAL")>>, "HYP_TOKEN_AMPERSAND")
      [] c = "|" -> match_chain(lx, <<Alt("|", "HYP_TOKEN_OR_OR"),
                                      Alt("=", "HYP_TOKEN_OR_EQUAL")>>, "HYP_TOKEN_PIPE")
      [] c = "^" -> match_chain(lx, <<Alt("=", "HYP_TOKEN_XOR_EQUAL")>>, "HYP_TOKEN_CARET")
      [] OTHER -> error_token(lx, "Unexpected character")

\* hyp_lexer_scan_token after "char c = advance(lexer)".  isalpha(c) is
\* evaluated on every path: in the markup-text test when in_jsx is set, in
\* the identifier test otherwise.
scan_character(lx, c) ==
    IF ctype_faults(lx, c) THEN crash(lx)
    ELSE IF lx.in_jsx /\ ~isalpha(lx, c) /\ c \notin {"<", "{", "}", ">", "/"}
         THEN scan_jsx_text(lx)
    ELSE IF isalpha(lx, c) \/ c = "_"
         THEN IF lx.in_jsx THEN scan_jsx_identifier(lx) ELSE scan_identifier(lx)
    ELSE IF isdigit(lx, c) THEN scan_number(lx)
    ELSE scan_punctuation(lx, c)

\* hyp_lexer_scan_token on a lexer that is not NULL.
hyp_lexer_scan_token(lx) ==
    Then(skip_whitespace(lx), LAMBDA l1 :
        Then([l1 EXCEPT !.start = l1.current], LAMBDA l2 :
            IF is_at_end(l2) THEN make_token(l2, "HYP_TOKEN_EOF")
            ELSE scan_character(lexer_advance(l2), peek(l2))))

NoToken == [type |-> "none"]

\* hyp_lexer_create on a source that is not NULL.  before is what the lexer
\* was when the last hyp_lexer_scan_token call began (not part of the C
\* struct), token what that call returned, emitted the kinds and texts of
\* the tokens returned so far, up to the first EOF.
hyp_lexer_create(source, ctype) ==
    [source |-> source, current |-> 1, start |-> 1, line |-> 1, column |-> 1,
     jsx_depth |-> 0, in_jsx |-> FALSE, ctype |-> ctype, crashed |-> FALSE,
     token |-> NoToken, emitted |-> <<>>,
     before |-> [current |-> 1, jsx_depth |-> 0, in_jsx |-> FALSE, token |-> NoToken]]

MaxChars == 3       \* characters of a source made of arbitrary characters
MaxFragments == 3   \* pieces of a source made of markup pieces
MaxLexemes == 3     \* lexemes of a source made of lexemes with a space between them

LexerAlphabet ==
    {"a", "1", " ", "\n", "<", ">", "/", "{", "}", "\"", "\\", ".", "e", "+", "=", "*",
     "@", HighByte}

MarkupFragments ==
    {<<"<", "a", ">">>, <<"<", "/", "a", ">">>, <<"<", "a", "/", ">">>, <<"t">>,
     <<"{", "x", "}">>, <<"{", "}">>, <<"{", "{", "x", "}", "}">>, <<" ">>}

RECURSIVE Flatten(_)
Flatten(pieces) == IF pieces = <<>> THEN <<>> ELSE Head(pieces) \o Flatten(Tail(pieces))

\* Keywords, identifiers, numbers and operators, each with the kind of token
\* the language gives it.
Lexemes == {
     [text |-> <<"l", "e", "t">>, type |-> "HYP_TOKEN_LET"],
     [text |-> <<"f", "n">>, type |-> "HYP_TOKEN_FN"],
     [text |-> <<"x">>, type |-> "HYP_TOKEN_IDENTIFIER"],
     [text |-> <<"l", "e", "t", "s">>, type |-> "HYP_TOKEN_IDENTIFIER"],
     [text |-> <<"x", "1">>, type |-> "HYP_TOKEN_IDENTIFIER"],
     [text |-> <<"1">>, type |-> "HYP_TOKEN_NUMBER"],
     [text |-> <<"1", "2">>, type |-> "HYP_TOKEN_NUMBER"],
     [text |-> <<"1", ".", "5">>, type |-> "HYP_TOKEN_NUMBER"],
     [text |-> <<"=">>, type |-> "HYP_TOKEN_EQUAL"],
     [text |-> <<"=", "=">>, type |-> "HYP_TOKEN_EQUAL_EQUAL"],
     [text |-> <<"=", ">">>, type |-> "HYP_TOKEN_ARROW"],
     [text |-> <<"+">>, type |-> "HYP_TOKEN_PLUS"],
     [text |-> <<"<">>, type |-> "HYP_TOKEN_LESS"],
     [text |-> <<"<", "=">>, type |-> "HYP_TOKEN_LESS_EQUAL"],
     [text |-> <<"/">>, type |-> "HYP_TOKEN_SLASH"]}

\* let x = 1 + 2;
LetStatement ==
    <<"l", "e", "t", " ", "x", " ", "=", " ", "1", " ", "+", " ", "2", ";">>

\* The texts of words with one space between them.
RECURSIVE Spaced(_)
Spaced(words) ==
    IF Len(words) = 1 THEN words[1].text
    ELSE words[1].text \o <<" ">> \o Spaced(Tail(words))

LexemeSources ==
    {Spaced(words) : words \in UNION {[1..n -> Lexemes] : n \in 1..MaxLexemes}}

LexerSources ==
    UNION {[1..n -> LexerAlphabet] : n \in 0..MaxChars}
    \cup {Flatten(pieces) : pieces \in UNION {[1..n -> MarkupFragments] : n \in 1..MaxFragments}}
    \cup LexemeSources \cup {LetStatement}

HasHighByte(source) == \E i \in 1..Len(source) : source[i] = HighByte

InitLexer ==
    /\ runtime = RuntimeIdle
    /\ runs = 0
    /\ status = "HYP_OK"
    /\ parser = ParserIdle
    /\ ppc = "idle"
    /\ lookup = LookupIdle
    /\ values = ValuesIdle
    /\ \E source \in LexerSources, ctype \in CtypeOutcomes :
            /\ ctype # "other" => HasHighByte(source)
            /\ lexer = hyp_lexer_create(source, ctype)

\* The text of the token just returned: the source slice start .. start +
\* length - 1, or the message of an error token.
TokenText(lx) ==
    IF lx.token.type = "HYP_TOKEN_ERROR" THEN <<lx.token.start>>
    ELSE SubSeq(lx.source, lx.token.start, lx.token.start + lx.token.length - 1)

\* The caller keeps the tokens it is given, up to the first EOF.
record_token(lx) ==
    IF lx.crashed \/ (lx.emitted # <<>> /\ lx.emitted[Len(lx.emitted)].type = "HYP_TOKEN_EOF")
    THEN lx
    ELSE [lx EXCEPT !.emitted = Append(@, [type |-> lx.token.type, text |-> TokenText(lx)])]

\* One hyp_lexer_scan_token call of the lexer's user.
ScanToken ==
    /\ ~lexer.crashed
    /\ lexer' = [record_token(hyp_lexer_scan_token(lexer)) EXCEPT
                    !.before = [current |-> lexer.current, jsx_depth |-> lexer.jsx_depth,
                                in_jsx |-> lexer.in_jsx, token |-> lexer.token]]
    /\ UNCHANGED <<runtime, runs, status, parser, ppc, lookup, values>>

NextLexer == ScanToken

SpecLexer == InitLexer /\ [][NextLexer]_vars

(***************************************************************************)
(* The value API used directly: Values are made with the constructors of    *)
(* src/unnamed/part_000, copied (a struct hyp_value is copied by            *)
(* assignment), compared with hyp_value_equals and combined by the switch   *)
(* of evaluate_binary, that of src/unnamed/part_000 and that of             *)
(* src/src/runtime/hyp_runtime.c.  values.made is the list of Values made,  *)
(* each with the index of the constructor call it comes from; values.next   *)
(* is the address malloc returns next; values.last is the last operation.   *)
(***************************************************************************)
MaxValues == 2      \* Values made by one user of the API

ScalarValues ==
    {hyp_value_null, hyp_value_boolean(TRUE), hyp_value_boolean(FALSE),
     hyp_value_number(0), hyp_value_number(2), hyp_value_number(DblMax),
     hyp_value_number(PosInf), hyp_value_number(NaN), hyp_value_string(""),
     hyp_value_string("a"), hyp_value_native_function("print")}

Capacities == {0, 2}

BinaryOperators ==
    {"BINOP_ADD", "BINOP_SUB", "BINOP_MUL", "BINOP_DIV", "BINOP_EQ", "BINOP_NE",
     "BINOP_LT", "BINOP_LE", "BINOP_GT", "BINOP_GE"}

\* runtime->error of hyp_runtime.c is a message or NULL: <<message>> or <<>>.
HrcResult(message, value) == [error |-> message, value |-> value]

\* The switch of evaluate_binary of src/src/runtime/hyp_runtime.c, applied to
\* the two operand values.
hyp_runtime_c_binary_switch(op, left, right) ==
    CASE op = "BINOP_ADD" ->
            IF BothNumbers(left, right)
            THEN HrcResult(<<>>, hyp_value_number(double_add(left.number, right.number)))
            ELSE HrcResult(<<"Invalid operands for addition">>, hyp_value_null)
      [] op = "BINOP_SUB" ->
            IF BothNumbers(left, right)
            THEN HrcResult(<<>>, hyp_value_number(double_sub(left.number, right.number)))
            ELSE HrcResult(<<"Invalid operands for subtraction">>, hyp_value_null)
      [] op = "BINOP_MUL" ->
            IF BothNumbers(left, right)
            THEN HrcResult(<<>>, hyp_value_number(double_mul(left.number, right.number)))
            ELSE HrcResult(<<"Invalid operands for multiplication">>, hyp_value_null)
      [] op = "BINOP_DIV" ->
            IF BothNumbers(left, right)
            THEN IF right.number = 0
                 THEN HrcResult(<<"Division by zero">>, hyp_value_null)
                 ELSE HrcResult(<<>>, hyp_value_number(double_div(left.number, right.number)))
            ELSE HrcResult(<<"Invalid operands for division">>, hyp_value_null)
      [] op = "BINOP_EQ" -> HrcResult(<<>>, hyp_value_boolean(hyp_value_equals(left, right)))
      [] op = "BINOP_NE" -> HrcResult(<<>>, hyp_value_boolean(~hyp_value_equals(left, right)))
      [] op = "BINOP_LT" ->
            IF BothNumbers(left, right)
            THEN HrcResult(<<>>, hyp_value_boolean(double_lt(left.number, right.number)))
            ELSE HrcResult(<<"Invalid operands for comparison">>, hyp_value_null)
      [] op = "BINOP_LE" ->
            IF BothNumbers(left, right)
            THEN HrcResult(<<>>, hyp_value_boolean(double_le(left.number, right.number)))
            ELSE HrcResult(<<"Invalid operands for comparison">>, hyp_value_null)
      [] op = "BINOP_GT" ->
            IF BothNumbers(left, right)
            THEN HrcResult(<<>>, hyp_value_boolean(double_lt(right.number, left.number)))
            ELSE HrcResult(<<"Invalid operands for comparison">>, hyp_value_null)
      [] op = "BINOP_GE" ->
            IF BothNumbers(left, right)
            THEN HrcResult(<<>>, hyp_value_boolean(double_le(right.number, left.number)))
            ELSE HrcResult(<<"Invalid operands for comparison">>, hyp_value_null)
      [] op = "BINOP_AND" -> HrcResult(<<>>, IF ~hyp_value_is_truthy(left) THEN left ELSE right)
      [] op = "BINOP_OR" -> HrcResult(<<>>, IF hyp_value_is_truthy(left) THEN left ELSE right)
      [] OTHER -> HrcResult(<<"Unknown binary operator">>, hyp_value_null)

NoOperation == [op |-> "none"]

InitValues ==
    /\ values = [made |-> <<>>, next |-> 1, last |-> NoOperation]
    /\ runtime = RuntimeIdle
    /\ runs = 0
    /\ status = "HYP_OK"
    /\ parser = ParserIdle
    /\ ppc = "idle"
    /\ lookup = LookupIdle
    /\ lexer = LexerIdle

Made(value) == [value |-> value, origin |-> Len(values.made) + 1]

\* hyp_value_null, hyp_value_boolean, hyp_value_number or hyp_value_string.
MakeScalar(value) ==
    /\ Len(values.made) < MaxValues
    /\ values' = [values EXCEPT !.made = Append(@, Made(value))]
    /\ UNCHANGED <<runtime, runs, status, parser, ppc, lookup, lexer>>

MakeArray(capacity) ==
    /\ Len(values.made) < MaxValues
    /\ values' = [values EXCEPT
            !.made = Append(@, Made(hyp_value_array(capacity, values.next))),
            !.next = IF capacity > 0 THEN @ + 1 ELSE @]
    /\ UNCHANGED <<runtime, runs, status, parser, ppc, lookup, lexer>>

\* hyp_value_object, or hyp_value_function on a function just allocated.
MakeObject(function) ==
    /\ Len(values.made) < MaxValues
    /\ values' = [values EXCEPT
            !.made = Append(@, Made(IF function THEN hyp_value_function(values.next)
                                    ELSE hyp_value_object(values.next))),
            !.next = @ + 1]
    /\ UNCHANGED <<runtime, runs, status, parser, ppc, lookup, lexer>>

\* hyp_value_t copy = made[i];
CopyValue(i) ==
    /\ Len(values.made) < MaxValues
    /\ values' = [values EXCEPT !.made = Append(@, values.made[i])]
    /\ UNCHANGED <<runtime, runs, status, parser, ppc, lookup, lexer>>

CompareValues(i, j) ==
    /\ values' = [values EXCEPT !.last =
            [op |-> "equals", a |-> i, b |-> j,
             result |-> hyp_value_equals(values.made[i].value, values.made[j].value)]]
    /\ UNCHANGED <<runtime, runs, status, parser, ppc, lookup, lexer>>

\* hyp_value_is_truthy(made[i]).
TestTruthy(i) ==
    /\ values' = [values EXCEPT !.last =
            [op |-> "is_truthy", a |-> i, result |-> hyp_value_is_truthy(values.made[i].value)]]
    /\ UNCHANGED <<runtime, runs, status, parser, ppc, lookup, lexer>>

\* One binary operation on two operand values, by both implementations.
ApplyBinary(op, i, j) ==
    /\ values' = [values EXCEPT !.last =
            [op |-> op, a |-> i, b |-> j,
             part_000 |-> binary_switch(hyp_runtime_create, op, values.made[i].value,
                                        values.made[j].value),
             hyp_runtime_c |-> hyp_runtime_c_binary_switch(op, values.made[i].value,
                                                           values.made[j].value)]]
    /\ UNCHANGED <<runtime, runs, status, parser, ppc, lookup, lexer>>

NextValues ==
    \/ \E value \in ScalarValues : MakeScalar(value)
    \/ \E capacity \in Capacities : MakeArray(capacity)
    \/ \E function \in BOOLEAN : MakeObject(function)
    \/ \E i \in 1..Len(values.made) : CopyValue(i)
    \/ \E i, j \in 1..Len(values.made) : CompareValues(i, j)
    \/ \E i \in 1..Len(values.made) : TestTruthy(i)
    \/ \E op \in BinaryOperators, i, j \in 1..Len(values.made) : ApplyBinary(op, i, j)

SpecValues == InitValues /\ [][NextValues]_vars

(***************************************************************************)
(* Properties of one execution, stated over the steps it took.             *)
(***************************************************************************)
Steps == 1..Len(runtime.trace)

\* C1: once a runtime error has been raised during one hyp_runtime_execute_ast
\* call, nothing further executes in that execution: no statement (top-level
\* or of a function body) begins, and neither main nor a built-in is called,
\* while the error flag is set.
C1_NothingRunsAfterError ==
    \A i \in Steps :
        runtime.trace[i].ev \in {"statement", "main", "native"} => ~runtime.trace[i].err

\* C2: the error message is first-cause-wins: an operation that fails while
\* the error flag is already set leaves the stored message as it was.
C2_FirstCauseWins ==
    \A i \in Steps :
        (runtime.trace[i].ev = "error" /\ runtime.trace[i].err)
            => runtime.trace[i].what = runtime.trace[i].old

\* C3: when evaluating a sub-expression sets the error flag, the enclosing
\* construct does no further work: an if takes no branch, a let or an
\* assignment writes no binding, a call evaluates no further argument and
\* does not invoke the callee.
C3_NoWorkAfterSubError ==
    \A i \in Steps :
        runtime.trace[i].ev \in {"branch", "define", "assign", "argument", "invoke"}
            => ~(~runtime.trace[i].err0 /\ runtime.trace[i].err)

\* C5: a let inside a { } block binds the name in the block's scope only: it
\* writes no binding into the global frame, so none is left there after the
\* block ends.
C5_BlockLetIsLocal ==
    \A i \in Steps :
        (runtime.trace[i].ev = "define" /\ runtime.trace[i].blocks > 0)
            => runtime.trace[i].frame # runtime.global_env

\* C6: a function declared inside another function's call can be called
\* after the outer call has returned: the environment captured as its
\* closure is never read after it has been destroyed.
C6_ClosureOutlivesCall == ~runtime.uaf

\* C7: and/or short-circuit: the right operand of and is evaluated only if
\* the left operand is truthy, the right operand of or only if it is falsy.
C7_ShortCircuit ==
    \A i \in Steps :
        runtime.trace[i].ev = "operand" =>
            /\ runtime.trace[i].what = "BINOP_AND" => hyp_value_is_truthy(runtime.trace[i].val)
            /\ runtime.trace[i].what = "BINOP_OR" => ~hyp_value_is_truthy(runtime.trace[i].val)

\* C8: a call used as an expression (an expression statement, an operand)
\* is evaluated by invoking the callee; the call node by itself is never
\* rejected by the expression evaluator.
C8_CallIsAnExpression ==
    \A i \in Steps :
        ~(runtime.trace[i].ev = "unsupported" /\ runtime.trace[i].what = "AST_CALL")

\* C9: an assignment to a name bound in the frame of the running call (a
\* parameter or local that shadows an outer name) writes that frame, not
\* the outer or global one.
C9_AssignWritesShadowingFrame ==
    \A i \in Steps :
        (runtime.trace[i].ev = "assign" /\ runtime.trace[i].env # runtime.global_env
            /\ runtime.trace[i].local)
            => runtime.trace[i].frame = runtime.trace[i].env

\* C4: for every source hyp_parser_parse terminates, having consumed the
\* tokens up to EOF: no iteration of the top-level loop or of the block loop
\* leaves the parser where it found it with the loop still to run.
C4_ParseTerminates ==
    /\ ppc # "hung"
    /\ ppc = "done" => parser.pos > Len(parser.tokens)

\* C10: an assignment whose left-hand side is not an identifier is a parse
\* error: when hyp_parser_parse returns after building such a node, the
\* parser has recorded an error and the result is no tree.
C10_InvalidTargetIsParseError ==
    (ppc = "done" /\ parser.bad_target) => (parser.had_error /\ parser.result = NoNode)

\* C11: hyp_parser_parse returns no tree if and only if a lexical or syntax
\* diagnostic was raised during the parse, and the had-error flag stays set
\* from the first diagnostic on.
C11_NoTreeIffDiagnostic ==
    /\ ~parser.crashed => (parser.had_error <=> parser.diagnostics # <<>>)
    /\ ppc = "done" => (parser.result = NoNode <=> parser.diagnostics # <<>>)

\* C11 happens: a parse that built declarations, raised a diagnostic and
\* returned no tree.
C11_Witness ==
    /\ ppc = "done"
    /\ parser.diagnostics # <<>>
    /\ parser.declarations # <<>>
    /\ parser.result = NoNode

\* C12: every hyp_runtime_call_function that returns, nested or not and
\* whether or not its body raised an error, leaves current_env as it was at
\* call entry; between executions current_env is the global environment.
C12_CallRestoresEnvironment ==
    /\ \A i \in Steps :
            runtime.trace[i].ev = "return" => runtime.trace[i].env = runtime.trace[i].frame
    /\ ~Stopped(runtime) => runtime.current_env = runtime.global_env

\* C12 happens: a call nested in another call returned with the error flag
\* set by its body.
C12_Witness ==
    \E i \in Steps :
        /\ runtime.trace[i].ev = "return"
        /\ runtime.trace[i].depth = 1
        /\ runtime.trace[i].err

\* The "call" step of the hyp_runtime_call_function whose body step j belongs
\* to (0 when step j is not inside a call).
EnclosingCall(j) ==
    IF \E i \in 1..(j - 1) : /\ runtime.trace[i].ev = "call"
                             /\ runtime.trace[i].depth = runtime.trace[j].depth - 1
    THEN CHOOSE i \in 1..(j - 1) :
            /\ runtime.trace[i].ev = "call"
            /\ runtime.trace[i].depth = runtime.trace[j].depth - 1
            /\ \A k \in (i + 1)..(j - 1) :
                    ~(/\ runtime.trace[k].ev = "call"
                      /\ runtime.trace[k].depth = runtime.trace[j].depth - 1)
    ELSE 0

\* Step j reads parameter number m of the call that began at step i, and
\* nothing has written that name into the call's frame since.
ReadsParameter(i, j, m) ==
    /\ runtime.trace[j].ev = "read"
    /\ i = EnclosingCall(j)
    /\ i # 0
    /\ m \in 1..Len(runtime.trace[i].val.parameters)
    /\ runtime.trace[i].val.parameters[m] = runtime.trace[j].what
    /\ \A k \in (i + 1)..(j - 1) :
            ~(/\ runtime.trace[k].ev \in {"define", "assign"}
              /\ runtime.trace[k].what = runtime.trace[j].what
              /\ runtime.trace[k].frame = runtime.trace[j].env)

\* C13: in a call with k arguments to a function with n parameters,
\* parameter m reads as argument m when m <= k and as Null when m > k,
\* whatever the closure or the global frame binds to that name.
C13_ParametersBindPositionally ==
    \A i \in Steps, j \in Steps :
        runtime.trace[i].ev = "call" =>
            \A m \in 1..Len(runtime.trace[i].val.parameters) :
                ReadsParameter(i, j, m) =>
                    runtime.trace[j].val =
                        IF m <= Len(runtime.trace[i].val.args)
                        THEN runtime.trace[i].val.args[m]
                        ELSE hyp_value_null

\* The value the innermost frame binding name holds, on the chain from env
\* to the global frame; Null when no frame on the chain binds it.
RECURSIVE InnermostBinding(_, _, _)
InnermostBinding(envs, env, name) ==
    IF env = NULL THEN hyp_value_null
    ELSE IF \E k \in 1..Len(envs[env].variables) : envs[env].variables[k].key = name
         THEN envs[env].variables[PropertyIndex(envs[env].variables, name)].value
    ELSE InnermostBinding(envs, envs[env].parent, name)

\* C14: a lookup returns the value bound in the innermost frame on the
\* chain that binds the name, also when that value is Null, and Null when no
\* frame binds it; this is so for the hyp_environment_get of both runtimes.
C14_LookupFindsInnermost ==
    lookup.last.env # NULL =>
        /\ lookup.last.value_part_000 =
                InnermostBinding(lookup.envs, lookup.last.env, lookup.last.name)
        /\ lookup.last.value =
                InnermostBinding(lookup.envs, lookup.last.env, lookup.last.name)

(***************************************************************************)
(* Properties of the lexer, stated over the last hyp_lexer_scan_token call: *)
(* lexer.before is the lexer when the call began.                          *)
(***************************************************************************)
Scanned == lexer.token # NoToken

\* C15: every hyp_lexer_scan_token call returns a token; a call that returns
\* a token other than EOF (an error token included) has moved the position
\* forward by at least one character; a call made after EOF was returned
\* returns EOF again and leaves the position where it was.
C15_ScanTokenProgress ==
    /\ ~lexer.crashed
    /\ (Scanned /\ lexer.token.type # "HYP_TOKEN_EOF") => lexer.current > lexer.before.current
    /\ (Scanned /\ lexer.before.token.type = "HYP_TOKEN_EOF") =>
            (lexer.token.type = "HYP_TOKEN_EOF" /\ lexer.current = lexer.before.current)

BalancedElement == <<"<", "a", ">", "t", "<", "/", "a", ">">>

\* C16: in markup mode a call that returns the self-closing "/>" or the
\* closing-tag "</" token has lowered jsx_depth by one, and has left markup
\* mode when the depth reached zero; once the balanced element <a>t</a> is
\* scanned to its end the depth is zero again and markup mode is left.
C16_ClosersDecrementDepth ==
    /\ (/\ lexer.before.in_jsx
        /\ ~lexer.crashed
        /\ lexer.token.type \in {"HYP_TOKEN_JSX_SELF_CLOSE", "HYP_TOKEN_JSX_END_TAG"})
            => /\ lexer.jsx_depth = lexer.before.jsx_depth - 1
               /\ lexer.jsx_depth = 0 => ~lexer.in_jsx
    /\ (lexer.source = BalancedElement /\ lexer.token.type = "HYP_TOKEN_EOF")
            => (lexer.jsx_depth = 0 /\ ~lexer.in_jsx)

(***************************************************************************)
(* Properties of the value API, stated over the last operation.            *)
(***************************************************************************)
ByValue == {"HYP_VAL_NULL", "HYP_VAL_BOOLEAN", "HYP_VAL_NUMBER", "HYP_VAL_STRING"}

\* What == is to return for two made Values: same tag and, for Null,
\* Boolean, Number and String the same content, for the others the same
\* constructor call behind both handles.
ExpectedEqual(A, B) ==
    /\ A.value.type = B.value.type
    /\ IF A.value.type \in ByValue THEN A.value = B.value ELSE A.origin = B.origin

\* C17: hyp_value_equals is false for two Values of different tags; for
\* equal tags it compares Null, Boolean, Number and String by content and
\* Array, Object and Function by identity: two separately created arrays
\* (two empty ones included) are never equal, two copies of one handle are.
C17_EqualsByValueOrIdentity ==
    values.last.op = "equals" =>
        (values.last.result <=>
            ExpectedEqual(values.made[values.last.a], values.made[values.last.b]))

NumberOperators ==
    {"BINOP_ADD", "BINOP_SUB", "BINOP_MUL", "BINOP_DIV",
     "BINOP_LT", "BINOP_LE", "BINOP_GT", "BINOP_GE"}
LastLeft == values.made[values.last.a].value
LastRight == values.made[values.last.b].value
ZeroDivisor ==
    values.last.op = "BINOP_DIV" /\ BothNumbers(LastLeft, LastRight) /\ LastRight.number = 0
MustFail == ~BothNumbers(LastLeft, LastRight) \/ ZeroDivisor
NotFinite(v) == v.type = "HYP_VAL_NUMBER" /\ v.number \in {PosInf, NegInf, NaN}

\* An operation on Numbers raises an error exactly when an operand is not a
\* Number or the divisor is zero, in both implementations.
ErrorsExactly ==
    /\ values.last.part_000.rt.has_error <=> MustFail
    /\ values.last.hyp_runtime_c.error # <<>> <=> MustFail

\* The message of a zero divisor is "Division by zero" and no invalid-operands
\* error has that message.
DistinctMessages ==
    MustFail =>
        /\ values.last.part_000.rt.error_message = "Division by zero" <=> ZeroDivisor
        /\ values.last.hyp_runtime_c.error = <<"Division by zero">> <=> ZeroDivisor

Returned == runtime.trace # <<>> /\ runtime.trace[Len(runtime.trace)].ev = "exit"
MainCalls == {i \in Steps : runtime.trace[i].ev = "main"}
MainIsBound ==
    hyp_environment_get(runtime, runtime.global_env, "main").value.type = "HYP_VAL_FUNCTION"

\* C19: hyp_runtime_execute_ast clears the error flag on entry, whatever an
\* earlier execution left in it; it executes the top-level statements and
\* then calls main, once and with no arguments, if and only if a function
\* named main is bound; it returns HYP_ERROR_RUNTIME if and only if the flag
\* is set at the end, which is if and only if this execution raised an error.
C19_ExecuteAstSequence ==
    Returned =>
        /\ runtime.trace[1].ev = "enter" /\ ~runtime.trace[1].err
        /\ Cardinality(MainCalls) = (IF MainIsBound THEN 1 ELSE 0)
        /\ \A i \in MainCalls :
                /\ runtime.trace[i + 1].ev = "call"
                /\ runtime.trace[i + 1].val.args = <<>>
                /\ \A j \in Steps :
                        (j > i /\ runtime.trace[j].ev = "statement") => runtime.trace[j].depth >= 1
                /\ \A j \in Steps :
                        (j < i /\ runtime.trace[j].depth = 0) => runtime.trace[j].ev # "main"
        /\ runtime.trace[Len(runtime.trace)].what = "HYP_ERROR_RUNTIME"
                <=> runtime.trace[Len(runtime.trace)].err
        /\ status = runtime.trace[Len(runtime.trace)].what
        /\ runtime.trace[Len(runtime.trace)].err
                <=> \E i \in Steps : runtime.trace[i].ev = "error"

\* A second execution entered with the flag of the first still set, whose main
\* runs and which returns HYP_OK.
C19_Witness ==
    /\ Returned
    /\ runtime.trace[1].err0
    /\ MainCalls # {}
    /\ \E j \in Steps : runtime.trace[j].ev = "statement" /\ runtime.trace[j].depth = 1
    /\ status = "HYP_OK"

(***************************************************************************)
(* The tree the precedence ladder gives an expression source, defined on   *)
(* the token list without the parser: the expression splits at its         *)
(* operator of the lowest level, the rightmost one of that level (so the   *)
(* level groups to the left) unless the level is assignment, where it is   *)
(* the leftmost one (so assignment groups to the right).                   *)
(***************************************************************************)
Level(type) ==
    CASE type = "HYP_TOKEN_EQUAL" -> 1
      [] type \in {"HYP_TOKEN_OR", "HYP_TOKEN_OR_OR"} -> 2
      [] type \in {"HYP_TOKEN_AND", "HYP_TOKEN_AND_AND"} -> 3
      [] type \in {"HYP_TOKEN_BANG_EQUAL", "HYP_TOKEN_EQUAL_EQUAL"} -> 4
      [] type \in {"HYP_TOKEN_GREATER", "HYP_TOKEN_GREATER_EQUAL",
                   "HYP_TOKEN_LESS", "HYP_TOKEN_LESS_EQUAL"} -> 5
      [] type \in {"HYP_TOKEN_MINUS", "HYP_TOKEN_PLUS"} -> 6
      [] type \in {"HYP_TOKEN_SLASH", "HYP_TOKEN_STAR", "HYP_TOKEN_PERCENT"} -> 7

OperatorsBetween(lo, hi) == {k \in lo..hi : k % 2 = 0}

SplitAt(tokens, lo, hi) ==
    CHOOSE k \in OperatorsBetween(lo, hi) :
        /\ \A j \in OperatorsBetween(lo, hi) : Level(tokens[k]) <= Level(tokens[j])
        /\ \A j \in OperatorsBetween(lo, hi) :
                Level(tokens[j]) = Level(tokens[k]) =>
                    IF Level(tokens[k]) = 1 THEN k <= j ELSE j <= k

RECURSIVE LadderTree(_, _, _)
LadderTree(tokens, lo, hi) ==
    IF lo = hi
    THEN IF tokens[lo] = "HYP_TOKEN_IDENTIFIER" THEN Identifier(lo)
         ELSE Literal("HYP_LITERAL_NUMBER", lo)
    ELSE IF Level(tokens[SplitAt(tokens, lo, hi)]) = 1
         THEN Assignment(LadderTree(tokens, lo, SplitAt(tokens, lo, hi) - 1),
                         LadderTree(tokens, SplitAt(tokens, lo, hi) + 1, hi))
    ELSE Binary(OperatorOf(tokens[SplitAt(tokens, lo, hi)]),
                LadderTree(tokens, lo, SplitAt(tokens, lo, hi) - 1),
                LadderTree(tokens, SplitAt(tokens, lo, hi) + 1, hi))

\* C20: the tree hyp_parser_parse returns for an expression built from
\* binary operators is the tree of the precedence ladder: an operator of a
\* higher level binds tighter, operators of one level group to the left, and
\* chained assignment groups to the right.
C20_PrecedenceLadder ==
    (ppc = "done" /\ parser.tokens \in ExpressionSources) =>
        parser.result = ProgramNode(<<ExpressionStmt(
                            LadderTree(parser.tokens, 1, Len(parser.tokens) - 1))>>)

\* 1 + 2 * 3 ; parsed as 1 + (2 * 3).
C20_Witness ==
    /\ ppc = "done"
    /\ parser.tokens = <<"HYP_TOKEN_NUMBER", "HYP_TOKEN_PLUS", "HYP_TOKEN_NUMBER",
                         "HYP_TOKEN_STAR", "HYP_TOKEN_NUMBER", "HYP_TOKEN_SEMICOLON">>
    /\ parser.result = ProgramNode(<<ExpressionStmt(
            Binary("HYP_BINARY_ADD", Literal("HYP_LITERAL_NUMBER", 1),
                   Binary("HYP_BINARY_MULTIPLY", Literal("HYP_LITERAL_NUMBER", 3),
                          Literal("HYP_LITERAL_NUMBER", 5))))>>)

-----------------------------------------------------------------------------
\* Properties of the token stream

\* The words of a source, which are separated by single spaces.
RECURSIVE Words(_, _)
Words(source, word) ==
    IF source = <<>> THEN <<word>>
    ELSE IF Head(source) = " " THEN <<word>> \o Words(Tail(source), <<>>)
    ELSE Words(Tail(source), Append(word, Head(source)))

EndOfFile == [type |-> "HYP_TOKEN_EOF", text |-> <<>>]

\* One token per word, of the kind the language gives the word and with the
\* word as its text, and then the end of file.
ExpectedOfWords(source) ==
    [i \in 1..Len(Words(source, <<>>)) |->
        [type |-> (CHOOSE l \in Lexemes : l.text = Words(source, <<>>)[i]).type,
         text |-> Words(source, <<>>)[i]]] \o <<EndOfFile>>

ExpectedOfLetStatement ==
    <<[type |-> "HYP_TOKEN_LET", text |-> <<"l", "e", "t">>],
      [type |-> "HYP_TOKEN_IDENTIFIER", text |-> <<"x">>],
      [type |-> "HYP_TOKEN_EQUAL", text |-> <<"=">>],
      [type |-> "HYP_TOKEN_NUMBER", text |-> <<"1">>],
      [type |-> "HYP_TOKEN_PLUS", text |-> <<"+">>],
      [type |-> "HYP_TOKEN_NUMBER", text |-> <<"2">>],
      [type |-> "HYP_TOKEN_SEMICOLON", text |-> <<";">>],
      EndOfFile>>

ExpectedTokens(source) ==
    IF source = LetStatement THEN ExpectedOfLetStatement ELSE ExpectedOfWords(source)

AtEndOfFile == lexer.emitted # <<>> /\ lexer.emitted[Len(lexer.emitted)].type = "HYP_TOKEN_EOF"

\* C21: the tokens of "let x = 1 + 2;" are LET, IDENTIFIER, EQUAL, NUMBER,
\* PLUS, NUMBER, SEMICOLON and EOF, each with its slice of the source as text,
\* and the tokens of keywords, identifiers, numbers and operators with spaces
\* between them are one token per lexeme, in order, and then EOF: what has been
\* returned so far is the beginning of that list, and all of it once EOF is
\* returned.
C21_OneTokenPerLexeme ==
    lexer.source \in LexemeSources \cup {LetStatement} =>
        /\ Len(lexer.emitted) <= Len(ExpectedTokens(lexer.source))
        /\ lexer.emitted = SubSeq(ExpectedTokens(lexer.source), 1, Len(lexer.emitted))
        /\ AtEndOfFile => lexer.emitted = ExpectedTokens(lexer.source)

\* The let statement has been tokenized to its end, and so has a source with
\* a keyword, an identifier that begins like a keyword and a number.
C21_Witness ==
    /\ AtEndOfFile
    /\ \/ lexer.source = LetStatement
       \/ lexer.source = <<"l", "e", "t", " ", "l", "e", "t", "s", " ", "1", ".", "5">>

\* What is left of a text after its leading digits.
RECURSIVE DropDigits(_)
DropDigits(text) ==
    IF text # <<>> /\ Head(text) \in Digits THEN DropDigits(Tail(text)) ELSE text

StartsWithDigit(text) == text # <<>> /\ Head(text) \in Digits

NoMatch == <<"no match">>

\* What is left after an optional "." followed by at least one digit.
DropFraction(text) ==
    IF text # <<>> /\ Head(text) = "."
    THEN IF StartsWithDigit(Tail(text)) THEN DropDigits(Tail(text)) ELSE NoMatch
    ELSE text

DropSign(text) == IF text # <<>> /\ Head(text) \in {"+", "-"} THEN Tail(text) ELSE text

\* What is left after an optional exponent: e or E, an optional sign and at
\* least one digit.
DropExponent(text) ==
    IF text # <<>> /\ Head(text) \in {"e", "E"}
    THEN IF StartsWithDigit(DropSign(Tail(text))) THEN DropDigits(DropSign(Tail(text)))
         ELSE NoMatch
    ELSE text

IsNumberLiteral(text) ==
    StartsWithDigit(text) /\ DropExponent(DropFraction(DropDigits(text))) = <<>>

\* C22: the text of every NUMBER token is digits, then optionally "." and at
\* least one digit, then optionally e or E, an optional sign and at least one
\* digit.
C22_NumberTokenGrammar ==
    \A i \in 1..Len(lexer.emitted) :
        lexer.emitted[i].type = "HYP_TOKEN_NUMBER" => IsNumberLiteral(lexer.emitted[i].text)

\* The position of the "}" that balances the "{" at position i of a source,
\* counting nested braces, or 0 when there is none.
RECURSIVE BalancingBrace(_, _, _)
BalancingBrace(source, i, open) ==
    IF i > Len(source) THEN 0
    ELSE IF source[i] = "}" /\ open = 1 THEN i
    ELSE BalancingBrace(source, i + 1,
            IF source[i] = "{" THEN open + 1
            ELSE IF source[i] = "}" THEN open - 1 ELSE open)

\* The call that just returned began in markup mode and its token starts at
\* a "{" that has a balancing "}".
TokenAtBrace ==
    /\ lexer.token.type \notin {"none", "HYP_TOKEN_ERROR", "HYP_TOKEN_EOF"}
    /\ lexer.before.in_jsx
    /\ lexer.source[lexer.token.start] = "{"
    /\ BalancingBrace(lexer.source, lexer.token.start, 0) # 0

\* C28: in markup mode the token that starts at a "{" is one embedded
\* expression token that ends at the "}" balancing it, nested braces counted,
\* the empty {} included.
C28_EmbeddedExpressionIsBalanced ==
    TokenAtBrace =>
        /\ lexer.token.type = "HYP_TOKEN_JSX_EXPRESSION"
        /\ lexer.token.start + lexer.token.length - 1
                = BalancingBrace(lexer.source, lexer.token.start, 0)

\* C29: after any number of hyp_lexer_scan_token calls the markup depth is not
\* negative, and the lexer is in markup mode exactly when the depth is
\* greater than zero.
C29_MarkupModeIffDepthPositive ==
    /\ lexer.jsx_depth >= 0
    /\ lexer.in_jsx <=> lexer.jsx_depth > 0

\* A "/>" has just brought the depth from one back to zero, or a tag has been
\* opened inside an open tag.
C29_Witness ==
    \/ /\ lexer.token.type = "HYP_TOKEN_JSX_SELF_CLOSE"
       /\ lexer.before.jsx_depth = 1
       /\ lexer.jsx_depth = 0
    \/ /\ lexer.token.type = "HYP_TOKEN_JSX_OPEN_TAG"
       /\ lexer.before.jsx_depth = 1
       /\ lexer.jsx_depth = 2

-----------------------------------------------------------------------------
\* Properties of values

\* The truthiness the language gives a value.
ExpectedTruthy(v) ==
    IF v.type = "HYP_VAL_NULL" THEN FALSE
    ELSE IF v.type = "HYP_VAL_BOOLEAN" THEN v.boolean
    ELSE IF v.type = "HYP_VAL_NUMBER" THEN v.number \notin {0, NaN}
    ELSE IF v.type = "HYP_VAL_STRING" THEN Len(v.string) > 0
    ELSE v.type \in {"HYP_VAL_ARRAY", "HYP_VAL_OBJECT", "HYP_VAL_FUNCTION",
                     "HYP_VAL_NATIVE_FUNCTION"}

\* C23: Null is false, a Boolean is itself, a Number is false exactly when it
\* is 0.0 or NaN, a String is false exactly when it is empty, and every Array,
\* Object, Function and NativeFunction is true.
C23_Truthiness ==
    values.last.op = "is_truthy" =>
        values.last.result = ExpectedTruthy(values.made[values.last.a].value)

\* hyp_value_is_truthy has been asked about NaN, and about an array without
\* elements.
C23_Witness ==
    /\ values.last.op = "is_truthy"
    /\ \/ values.made[values.last.a].value = hyp_value_number(NaN)
       \/ values.made[values.last.a].value.type = "HYP_VAL_ARRAY"

-----------------------------------------------------------------------------
\* Properties of assignment through a chain of frames

\* The innermost frame that binds name on the chain from env to the global
\* frame, NULL when none does.
RECURSIVE BindingFrame(_, _, _)
BindingFrame(envs, env, name) ==
    IF env = NULL THEN NULL
    ELSE IF \E k \in 1..Len(envs[env].variables) : envs[env].variables[k].key = name
         THEN env
    ELSE BindingFrame(envs, envs[env].parent, name)

\* The bindings of a frame: the value of each name it binds.
Bindings(frame) ==
    {<<frame.variables[k].key, frame.variables[k].value>> : k \in 1..Len(frame.variables)}

\* after is before with name bound to value in frame and nothing else
\* changed.
OnlyRebinds(before, after, frame, name, value) ==
    /\ Len(after) = Len(before)
    /\ \A e \in 1..Len(before) :
        /\ after[e].parent = before[e].parent
        /\ Bindings(after[e]) =
                IF e = frame
                THEN {b \in Bindings(before[e]) : b[1] # name} \cup {<<name, value>>}
                ELSE Bindings(before[e])

AssignedFrame ==
    IF BindingFrame(lookup.assigned.before, lookup.assigned.env, lookup.assigned.name) # NULL
    THEN BindingFrame(lookup.assigned.before, lookup.assigned.env, lookup.assigned.name)
    ELSE lookup.assigned.env

\* C24: hyp_environment_assign updates the binding of the innermost frame on
\* the chain that binds the name and changes no other frame; when no frame on
\* the chain binds the name it creates the binding in the frame it was called
\* on.  This is so for the hyp_environment_assign of both runtimes.
C24_AssignUpdatesInnermostOrDefinesHere ==
    lookup.assigned.env # NULL =>
        /\ OnlyRebinds(lookup.assigned.before, lookup.assigned.part_000, AssignedFrame,
                       lookup.assigned.name, lookup.assigned.value)
        /\ OnlyRebinds(lookup.assigned.before, lookup.envs, AssignedFrame,
                       lookup.assigned.name, lookup.assigned.value)

-----------------------------------------------------------------------------
\* Properties of return statements

\* What a body statement prints and the value it has when nothing is skipped.
PrintsOf(stmt) ==
    IF stmt = Call(Id("print"), <<Num(2)>>) THEN <<"2">> ELSE <<>>

ValueOf(stmt) ==
    IF stmt = Return(Num(1)) THEN hyp_value_number(1)
    ELSE IF stmt = ExprStmt(Num(3)) THEN hyp_value_number(3)
    ELSE IF stmt = If(Bool(TRUE), Return(Num(4)), NoNode) THEN hyp_value_number(4)
    ELSE hyp_value_null

RECURSIVE PrintsOfBody(_)
PrintsOfBody(body) ==
    IF body = <<>> THEN <<>> ELSE PrintsOf(Head(body)) \o PrintsOfBody(Tail(body))

\* What the program prints when every statement of the body runs and every
\* iteration of the loop is made.
ExpectedOutput(ast) ==
    IF \E body \in Bodies : ast = BlockProgram(body)
    THEN PrintsOfBody((CHOOSE body \in Bodies : ast = BlockProgram(body)))
    ELSE IF \E body \in Bodies : ast = FunctionProgram(body)
    THEN PrintsOfBody((CHOOSE body \in Bodies : ast = FunctionProgram(body)))
    ELSE PrintsOfBody((CHOOSE body \in Bodies : ast = LoopProgram(body))) \o <<"0">>
            \o PrintsOfBody((CHOOSE body \in Bodies : ast = LoopProgram(body))) \o <<"1">>

\* The last n lines written to the standard output.
LastLines(n) ==
    SubSeq(runtime.stdout, Len(runtime.stdout) - n + 1, Len(runtime.stdout))

HasReturn(ast) ==
    \E body \in Bodies :
        /\ ast \in {BlockProgram(body), FunctionProgram(body), LoopProgram(body)}
        /\ \E i \in 1..Len(body) : body[i] \in {Return(Num(1)), Return(NoNode),
                                                If(Bool(TRUE), Return(Num(4)), NoNode)}

\* C25: a return statement does not end the enclosing block, loop or function
\* body: the statements after it run, a loop with it in its body runs on
\* while its condition is truthy, and the value of a call is the value of the
\* statement that ran last.
C25_ReturnDoesNotEndTheBody ==
    (runtime.program \in ReturnPrograms /\ ~Stopped(runtime)) =>
        /\ ~runtime.has_error
        /\ Len(runtime.stdout) >= Len(ExpectedOutput(runtime.program))
        /\ LastLines(Len(ExpectedOutput(runtime.program))) = ExpectedOutput(runtime.program)
        /\ runs = 1 => runtime.stdout = ExpectedOutput(runtime.program)
        /\ \A body \in Bodies : \A i \in 1..Len(runtime.trace) :
                (/\ runtime.program = FunctionProgram(body)
                 /\ runtime.trace[i].ev = "return") =>
                    runtime.trace[i].val = ValueOf(body[Len(body)])

\* A function whose body is "return 1; print(2);" has been called, and a loop
\* whose body begins with a return has run.
C25_Witness ==
    /\ ~Stopped(runtime)
    /\ runs = 1
    /\ \/ /\ runtime.program = FunctionProgram(<<Return(Num(1)), Call(Id("print"), <<Num(2)>>)>>)
          /\ \E i \in 1..Len(runtime.trace) : runtime.trace[i].ev = "return"
       \/ runtime.program = LoopProgram(<<Return(NoNode)>>)

-----------------------------------------------------------------------------
\* Properties of error recovery in the parser

\* C26: while the panic flag is set no diagnostic is printed, and only
\* synchronize clears the flag: no more than one diagnostic is printed between
\* two clearings of the flag, and after a diagnostic the flag stays set until
\* the next synchronize.
C26_OneDiagnosticPerPanic ==
    parser.tokens # <<>> =>
        /\ parser.burst <= 1
        /\ parser.since_clear = 1 => parser.panic_mode
        /\ (parser.panic_mode /\ ~parser.crashed) => parser.since_clear = 1
        /\ parser.burst = 0 <=> parser.diagnostics = <<>>

\* An error was found while the flag was set and was not reported, and the
\* parser has synchronized and reported a later error.
C26_Witness ==
    /\ parser.tokens # <<>>
    /\ parser.suppressed
    /\ parser.sync # NoSync
    /\ Len(parser.diagnostics) >= 2

Discarded == parser.sync.from..(parser.sync.to - 1)

-----------------------------------------------------------------------------
\* Properties of objects

\* The keys of a list of set calls, each once, in the order of first use.
RECURSIVE KeysInOrder(_, _)
KeysInOrder(sets, seen) ==
    IF sets = <<>> THEN <<>>
    ELSE IF Head(sets).key \in seen THEN KeysInOrder(Tail(sets), seen)
    ELSE <<Head(sets).key>> \o KeysInOrder(Tail(sets), seen \cup {Head(sets).key})

\* The value of the latest set call for key, Null when there is none.
RECURSIVE LatestValue(_, _)
LatestValue(sets, key) ==
    IF sets = <<>> THEN hyp_value_null
    ELSE IF sets[Len(sets)].key = key THEN sets[Len(sets)].value
    ELSE LatestValue(SubSeq(sets, 1, Len(sets) - 1), key)

\* C30: after any sequence of hyp_object_set calls the keys of the object are
\* pairwise distinct and in the order of their first insertion, every key has
\* the value of the latest set made for it, and hyp_object_get returns that
\* value, and Null for a key never set; the names and values of an
\* environment given the same hyp_environment_define calls are the same.
C30_ObjectKeepsInsertionOrder ==
    lookup.envs # <<>> =>
        /\ [i \in 1..Len(lookup.object.properties) |-> lookup.object.properties[i].key]
                = KeysInOrder(lookup.sets, {})
        /\ \A i \in 1..Len(lookup.object.properties) :
                lookup.object.properties[i].value
                    = LatestValue(lookup.sets, lookup.object.properties[i].key)
        /\ lookup.envs[1].names = KeysInOrder(lookup.sets, {})
        /\ \A i \in 1..Len(lookup.envs[1].names) :
                lookup.envs[1].values[i] = LatestValue(lookup.sets, lookup.envs[1].names[i])
        /\ Len(lookup.object.properties) <= lookup.object.capacity
        /\ lookup.last # NoGet =>
                /\ lookup.last.value = LatestValue(lookup.sets, lookup.last.key)
                /\ lookup.last.variable = LatestValue(lookup.sets, lookup.last.key)

\* A key was set, another key was set, the first was set again, and
\* hyp_object_get was asked for it.
C30_Witness ==
    /\ lookup.envs # <<>>
    /\ Len(lookup.sets) >= 3
    /\ lookup.sets[1].key = lookup.sets[3].key
    /\ lookup.sets[1].key # lookup.sets[2].key
    /\ lookup.sets[1].value # lookup.sets[3].value
    /\ lookup.last # NoGet
    /\ lookup.last.key = lookup.sets[1].key

====
